---- MODULE Spec2Model ----
(***************************************************************************)
(* Detection-to-inventory reconciliation pipeline of the SusCart backend   *)
(* (src/backend/main.py, src/backend/utils/helpers.py,                     *)
(* src/backend/models.py, src/backend/api/inventory.py), with the video    *)
(* broadcast, the AI recommendation rate limiter, the camera stream        *)
(* control of /ws/stream_video, the detection images                       *)
(* (src/backend/utils/image_storage.py) and the simple matcher.            *)
(*                                                                         *)
(* Time is counted in units of 0.25 s, so detection_delta = 0.25 s is 1    *)
(* unit and update_delta = 1 s is 4 units.  Freshness scores are counted   *)
(* in hundredths (0..100 for 0.0..1.0) and discounts in hundredths of a    *)
(* percent (0..7500 for 0.00..75.00).                                      *)
(***************************************************************************)
EXTENDS Integers, Sequences, FiniteSets, TLC

\* ------------------------------------------------------------------ bounds
MaxTime == 5
MaxCount == 1
MaxHttp == 1
MaxFaults == 1
MaxFrames == 2
NRequesters == 3
MaxRequests == 4
MaxClock == 20
MaxCaptures == 2
MaxProducers == 2
NCustomers == 4
MaxKeep == 2
MaxSessions == 2
MaxBoxes == 2
MaxProxyFrames == 3
MaxSockets == 3
ClampMargin == 5

\* ------------------------------------------------------- program constants
DetectionDelta == 1
UpdateDelta == 4
MaxDiscount == 7500
TriggerDiscount == 2000
AI_RECOMMENDATION_INTERVAL == 10
RetentionCap == 100
max_retries == 5

Categories == {"apple", "banana"}
CatOrder == <<"apple", "banana">>
Threads == {1, 2}
FreshLevels == {100, 90, 30}
FrameFreshLevels == {30}

\* Python's None, for a missing freshness score or discount
NoScore == -1
MinConfidence == 60
NoDisc == -1

\* ------------------------------------------------------------ dict helpers
Put(f, k, v) == [x \in (DOMAIN f) \cup {k} |-> IF x = k THEN v ELSE f[x]]

Pop(f, k) == [x \in (DOMAIN f) \ {k} |-> f[x]]

Get(f, k, default) == IF k \in DOMAIN f THEN f[k] ELSE default

EmptyDict == [x \in {} |-> 0]

SetMax(S) == CHOOSE m \in S : \A x \in S : x <= m

\* ------------------------------------------------ FreshnessStatus (models)
\* round(75 * (1 - f^1.5), 2) for f = k/100, in hundredths of a percent:
\* the integer d nearest to 7500 - sqrt(225 k^3)/2.  At k = 49 the exact
\* value 4927.5 is a tie that the float arithmetic rounds up.
DiscountOf(c) ==
    LET x == 225 * c * c * c
    IN  IF c = 49 THEN 4928
        ELSE CHOOSE d \in 0..MaxDiscount :
                /\ (14999 - 2 * d <= 0) \/ ((14999 - 2 * d) * (14999 - 2 * d) <= x)
                /\ x < (15001 - 2 * d) * (15001 - 2 * d)

DiscountTable == [c \in 0..100 |-> DiscountOf(c)]

\* Mutant: the curve rises with the freshness score.
DiscountRising(k) ==
    DiscountTable[100 - (IF k < 0 THEN 0 ELSE IF k > 100 THEN 100 ELSE k)]

\* max(0.0, min(1.0, freshness_score)), then the curve (models.py 163-168)
calculate_discount(k) ==
    DiscountTable[IF k < 0 THEN 0 ELSE IF k > 100 THEN 100 ELSE k]

\* Mutant: the boundaries belong to the tier below.
UpdateStatusStrict(k) ==
    IF k > 60 THEN "fresh" ELSE IF k > 20 THEN "ripe" ELSE "clearance"

\* FreshnessStatus.update_status (models.py 172-179)
update_status(k) ==
    IF k >= 60 THEN "fresh" ELSE IF k >= 20 THEN "ripe" ELSE "clearance"


\* ================================================================ state
VARIABLES
    \* --- detection pipeline (process_frame, process_proxy_frame)
    mode,        \* CAMERA_MODE: "local" or "proxy"
    feed,        \* what the camera shows during this run
    session,     \* streaming sessions started so far
    now,         \* time.time(), in units of 0.25 s
    items,       \* committed FruitInventory rows: id -> [cat, qty]
    fresh,       \* committed FreshnessStatus rows: inventory_id -> [score, disc]
    cache,       \* inventory_cache: category -> [id, qty]
    prev,        \* previous_class_counts: category -> count
    lastUpd,     \* last_updated_time: category -> time
    lastDet,     \* last_detection_time
    cachedDet,   \* cached_detections
    pc,          \* per frame thread: position in process_frame / process_proxy_frame
    ctime,       \* per frame thread: current_time of the frame
    result,      \* per frame thread: result['detections'], what detect() returned
    det,         \* per frame thread: processed_detections
    todo,        \* per frame thread: categories _prepare_inventory_updates has not visited yet
    upd,         \* per frame thread: updates_to_process
    httpLeft,    \* HTTP requests the model still admits
    faultsLeft,  \* store errors the model still admits
    triggers,    \* recommendation requests the latest store operation started
    emitLog,     \* count-deltas emitted: <<category, current_time>>
    writes,      \* inventory ids whose rows the batch of the frame in progress wrote
    events,      \* quantity_changed / inventory_added events that batch sent to the admins
    arrival,     \* frame threads with a frame in progress, in the order the frames were received
    overtaken,   \* frame threads whose frame a frame received later was broadcast ahead of
    \* --- _broadcast_frame_to_frontend
    registry,    \* frontend_video_connections
    frameNo,     \* frames broadcast so far
    sent,        \* per observer: messages of the latest frame it received
    failed,      \* observers whose send raised during the latest broadcast
    \* --- AI recommendation rate limiter (helpers.py)
    clock,       \* time.time(), in seconds
    lastAi,      \* _last_ai_call_time
    lock,        \* _ai_call_lock: 0, or the request thread holding it
    rpc,         \* per request thread: position in _generate_recommendations_threaded
    rtime,       \* per request thread: current_time read under the lock
    ralg,        \* per request thread: its algorithm argument (FALSE when idle)
    aiCalls,     \* current_time of every rate-limited request that went on to the AI matcher
    checked,     \* number of rate-limited requests that evaluated the limiter
    \* --- /ws/stream_video: camera and producer thread
    camera,      \* the handler's camera variable: 0 (None) or a capture id
    opened,      \* per capture id: "unused", "open", "failed" or "released"
    streaming,   \* the handler's streaming flag
    hpc,         \* position of the connection handler
    ppc,         \* per producer thread: position in process_frame's loop
    reading,     \* per producer thread: the capture id its camera.read() runs on, or 0
    reply,       \* the latest message the handler sent to its client in answer to a command
    \* --- one FreshnessStatus object being rescored
    freshness_score,      \* in hundredths
    discount_percentage,  \* in hundredths of a percent
    status,               \* 'fresh', 'ripe' or 'clearance'
    lastScore,   \* freshness_score before the latest assignment
    lastDisc,    \* discount_percentage before the latest assignment
    \* --- detection images (utils/image_storage.py, main.py 101)
    imaging,     \* whether the run follows the image side; it never feeds back
                 \* into the counts, the cache or the store
    category_images_memory_cache,  \* category -> number of crops held in memory
    files,       \* category -> the image files of detection_images/<category>
    deletions,   \* categories with a delete_category_images thread started, not yet run
    max_images,  \* the argument of the latest keep_latest_images call
    \* --- the simple matcher (helpers.py 384-438)
    preferences,      \* per customer: what evaluating its preferences does
    recommendations,  \* customers with a committed Recommendation row
    notified,         \* customers sent a new_recommendation message
    matched,          \* whether the matcher has run
    \* --- the camera proxy process (camera_proxy.py)
    attempt,     \* main: the loop variable of for attempt in range(max_retries)
    mpc,         \* position of main and of the run it awaits
    runFailed,   \* whether the run in progress hit a failure
    framesSent,  \* frames the run in progress has sent to the backend
    \* --- customer sockets (main.py 940-981, helpers.py 39-50)
    customer_connections,  \* customer id -> the socket registered for it
    wpc,         \* per socket: position of its customer_websocket handler
    wsCustomer,  \* per socket: the customer id of its URL (0: not connected)
    sendFailed,  \* per socket: whether a send on it has raised
    \* --- _save_memory_images_to_disk step by step (main.py 385-406)
    spc,         \* per category: position of the call in progress
    savedIdx     \* per category: position of its for loop in memory_images

cfgV    == <<mode, feed, session>>
storeV  == <<items, fresh>>
trackV  == <<cache, prev, lastUpd>>
detV    == <<lastDet, cachedDet>>
frameV  == <<pc, ctime, result, det, todo, upd>>
budgetV == <<httpLeft, faultsLeft>>
ghostV  == <<triggers, emitLog, writes, events, arrival, overtaken>>

pipeVars   == <<cfgV, now, storeV, trackV, detV, frameV, budgetV, ghostV>>
bcastVars  == <<registry, frameNo, sent, failed>>
aiVars     == <<clock, lastAi, lock, rpc, rtime, ralg, aiCalls, checked>>
streamVars == <<camera, opened, streaming, hpc, ppc, reading, reply>>

discVars   == <<freshness_score, discount_percentage, status, lastScore, lastDisc>>
imgVars    == <<imaging, category_images_memory_cache, files, deletions, max_images>>
matchVars  == <<preferences, recommendations, notified, matched>>
proxyVars  == <<attempt, mpc, runFailed, framesSent>>
custVars   == <<customer_connections, wpc, wsCustomer, sendFailed>>
saveVars   == <<spc, savedIdx>>
edgeVars   == <<proxyVars, custVars, saveVars>>
restVars   == <<discVars, matchVars, edgeVars>>
auxVars    == <<restVars, imgVars>>

vars == <<pipeVars, bcastVars, aiVars, streamVars, auxVars>>

\* ------------------------------------------------------------- detections
\* processed_detections, reduced to what the reconciler reads: per category
\* the number of boxes kept and the average of their freshness scores.
NoDetections == [c \in Categories |-> [n |-> 0, f |-> NoScore]]

\* one frame: the boxes kept per category and the score the freshness model
\* gives the fruit in it (NoScore when the model is not loaded)
Frame(n, f) == [c \in Categories |-> [n |-> n[c], f |-> IF n[c] > 0 THEN f ELSE NoScore]]

Frames ==
    { Frame(n, f) : n \in [Categories -> 0..MaxCount],
                    f \in FrameFreshLevels \cup {NoScore} }

\* frames that show apples only
AppleFrames(levels) ==
    { Frame([c \in Categories |-> IF c = "apple" THEN k ELSE 0], f) :
        k \in 0..MaxCount, f \in levels }

\* the frames of a run: "mixed" shows both fruits, scored at one level or
\* unscored; "apples" unscored apples; "ripening" apples at every level
FramesOf(fd) ==
    IF fd = "mixed" THEN Frames
    ELSE IF fd = "apples" THEN AppleFrames({NoScore})
    ELSE AppleFrames(FreshLevels \cup {NoScore})

\* what detect() returns for a frame: a list of boxes, each with its class,
\* the detector's confidence (in hundredths) and the score the freshness
\* model gives its crop (NoScore when the model is not loaded)
Box(c, conf, f) == [class |-> c, confidence |-> conf, score |-> f]

Confidences == {MinConfidence - 1, MinConfidence, 90}
BoxScores == {30, 90}

\* apples the detector is more or less sure of
UncertainDetections ==
    UNION { [1..n -> {Box("apple", conf, f) : conf \in Confidences, f \in BoxScores}] :
            n \in 0..MaxBoxes }

\* the boxes of a frame the detector is sure of
SureDetections(d) ==
    LET boxes(c) == [i \in 1..d[c].n |-> Box(c, 90, d[c].f)]
    IN  boxes(CatOrder[1]) \o boxes(CatOrder[2])

DetectionsOf(fd) ==
    IF fd = "uncertain" THEN UncertainDetections
    ELSE { SureDetections(d) : d \in FramesOf(fd) }

\* Mutant: every box is kept.
ProcessKeepsAll(detections) == detections

\* if detection['confidence'] < min_confidence: continue (main.py 1054-1056)
_process_detections(detections) ==
    SelectSeq(detections, LAMBDA x : x.confidence >= MinConfidence)

RECURSIVE SumScores(_)
SumScores(boxes) ==
    IF boxes = << >> THEN 0 ELSE Head(boxes).score + SumScores(Tail(boxes))

\* processed_detections as the reconciler reads them: per category the
\* number of boxes and the average of their scores (main.py 1110-1135)
Summary(processed) ==
    [c \in Categories |->
        LET b == SelectSeq(processed, LAMBDA x : x.class = c)
            v == SelectSeq(b, LAMBDA x : x.score # NoScore)
        IN  [n |-> Len(b),
             f |-> IF v = << >> THEN NoScore ELSE SumScores(v) \div Len(v)]]

_count_detected_classes(d) ==
    [c \in {x \in Categories : d[x].n > 0} |-> d[c].n]

_calculate_freshness_updates(d) ==
    [c \in {x \in Categories : d[x].n > 0 /\ d[x].f # NoScore} |-> d[c].f]

\* ------------------------------------------------------ state at start-up
StoreEmpty == [items |-> EmptyDict, fresh |-> EmptyDict]

StoreSeeded ==
    [items |-> (1 :> [cat |-> "apple", qty |-> 1]),
     fresh |-> (1 :> [score |-> 100, disc |-> calculate_discount(100)])]

InitStores == {StoreEmpty, StoreSeeded}

\* the first item of each fruit type, as FruitInventory.query.all() lists them
_initialize_cache(its) ==
    [c \in {its[i].cat : i \in DOMAIN its} |->
        LET i == CHOOSE j \in DOMAIN its :
                    its[j].cat = c /\ \A k \in DOMAIN its : its[k].cat = c => j <= k
        IN  [id |-> i, qty |-> its[i].qty]]


\* ------------------------------------------------------ detection images
\* An image file of a category directory: the prefix its name starts with
\* ("" for a plain timestamp name), a number that tells files apart, and its
\* modification time.  A metadata .json file shares the fate of its image.
ImageFile(prefix, n, mtime) == [prefix |-> prefix, n |-> n, mtime |-> mtime]

\* name.startswith('thumbnail.') or name.startswith('processed_')
Durable(f) == f.prefix = "thumbnail." \/ f.prefix = "processed_"

\* _process_detections appends every crop to the list of its category
\* (main.py 1094-1098)
BufferCrops(buf, d) == [c \in Categories |-> buf[c] + d[c].n]

\* the count of a category changed and is 0 now: the thread is started
\* (main.py 1215-1222)
StartsDeletion(c, cur, prv) == Get(cur, c, 0) # Get(prv, c, 0) /\ Get(cur, c, 0) = 0

\* Mutant: the whole directory is emptied.
DeleteEverything(fs) == {}

\* the files left in the directory (image_storage.py 206-208)
delete_category_images(fs) == {f \in fs : Durable(f)}

\* cv2.imwrite to thumbnail.jpg, replacing the file (image_storage.py 241-246)
save_thumbnail(fs, t) ==
    {f \in fs : f.prefix # "thumbnail."} \cup {ImageFile("thumbnail.", 0, t)}

\* the crop written to the directory as a processed image (main.py 398-403)
save_processed_image(fs, t) ==
    fs \cup {ImageFile("processed_", SetMax({f.n : f \in fs} \cup {0}) + 1, t)}

RECURSIVE SaveCrops(_, _, _)
SaveCrops(fs, k, t) ==
    IF k = 0 THEN fs ELSE SaveCrops(save_processed_image(fs, t), k - 1, t)

\* the buffer of the category and its directory afterwards (main.py 385-406)
_save_memory_images_to_disk(buf, dirs, c, t) ==
    [buf   |-> [buf EXCEPT ![c] = 0],
     files |-> [dirs EXCEPT ![c] = SaveCrops(@, buf[c], t)]]

\* The directories keep_latest_images can leave: the *.jpg files sorted by
\* modification time, newest first, and all but the first max_images
\* unlinked; files of equal time sort in either order (image_storage.py 97-113)
keep_latest_images(fs, n) ==
    IF Cardinality(fs) <= n THEN {fs}
    ELSE {fs \ D : D \in {E \in SUBSET fs :
                            /\ Cardinality(E) = Cardinality(fs) - n
                            /\ \A d \in E, k \in fs \ E : d.mtime <= k.mtime}}

\* the thumbnails a batch saved (main.py 1276-1278, 1326-1327)
SaveThumbnails(dirs, cats, t) ==
    [c \in Categories |-> IF c \in cats THEN save_thumbnail(dirs[c], t) ELSE dirs[c]]


\* ------------------------------------------- _prepare_inventory_updates
\* Mutant: the gate stays closed when exactly update_delta has passed.
GateOpenStrict(lu, c, t) == c \notin DOMAIN lu \/ t - lu[c] > UpdateDelta

\* the debounce gate of one category (main.py 1206-1212)
GateOpen(lu, c, t) == c \notin DOMAIN lu \/ t - lu[c] >= UpdateDelta

\* Mutant: only the categories of the new counts are compared.
AllFruitTypesCurrentOnly(cur, prv) ==
    SelectSeq(CatOrder, LAMBDA c : c \in DOMAIN cur)

\* set(current_class_counts.keys()) | set(previous_class_counts.keys()) (1199)
all_fruit_types(cur, prv) ==
    SelectSeq(CatOrder, LAMBDA c : c \in (DOMAIN cur) \cup (DOMAIN prv))

UpdateRec(c, id, old, new, f) ==
    [type |-> "update", cat |-> c, id |-> id, old |-> old, new |-> new, f |-> f]

CreateRec(c, qty, f) ==
    [type |-> "create", cat |-> c, id |-> 0, old |-> 0, new |-> qty, f |-> f]

FreshnessOnlyRec(c, id, f) ==
    [type |-> "freshness_only", cat |-> c, id |-> id, old |-> 0, new |-> 0, f |-> f]

\* the body of the loop for a category whose gate is open (main.py 1214-1256):
\* the updates appended and the inventory cache afterwards
PrepareCategory(c, cur, prv, fu, cch) ==
    LET current_count == Get(cur, c, 0)
        previous_count == Get(prv, c, 0)
    IN  IF current_count # previous_count
        THEN IF c \in DOMAIN cch
             THEN [ups |-> << UpdateRec(c, cch[c].id, cch[c].qty, current_count,
                                IF current_count > 0 THEN Get(fu, c, NoScore)
                                                     ELSE NoScore) >>,
                   cache |-> Put(cch, c, [id |-> cch[c].id, qty |-> current_count])]
             ELSE IF current_count > 0
                  THEN [ups |-> << CreateRec(c, current_count, Get(fu, c, NoScore)) >>,
                        cache |-> cch]
                  ELSE [ups |-> << >>, cache |-> cch]
        ELSE IF current_count > 0 /\ c \in DOMAIN fu /\ c \in DOMAIN cch
             THEN [ups |-> << FreshnessOnlyRec(c, cch[c].id, fu[c]) >>, cache |-> cch]
             ELSE [ups |-> << >>, cache |-> cch]

IsCountDelta(u) == u.type \in {"update", "create"}

\* ------------------------------------------------ update_freshness_for_item
\* Mutant: the new discount only has to be no lower than the previous one.
ShouldTriggerNotStrict(old, new) == old # NoDisc /\ new >= old /\ new >= TriggerDiscount

\* new_discount > previous_discount and new_discount >= 20; the comparison of
\* a number with None raises TypeError (a record created in this call has
\* discount_percentage None until it is flushed), and the error is swallowed.
ShouldTrigger(old, new) == old # NoDisc /\ new > old /\ new >= TriggerDiscount

\* acc.ss is the session's view of the store, acc.cm what is committed
update_freshness_for_item(acc, id, score) ==
    LET old == IF id \in DOMAIN acc.ss.fresh THEN acc.ss.fresh[id].disc ELSE NoDisc
        new == calculate_discount(score)
        a1  == [acc EXCEPT !.ss.fresh = Put(@, id, [score |-> score, disc |-> new]),
                           !.wr = @ \cup {id}]
    IN  IF id \in DOMAIN acc.ss.items /\ ShouldTrigger(old, new)
        THEN [a1 EXCEPT !.trig = @ \cup {[id |-> id, old |-> old, new |-> new,
                                           algorithm |-> FALSE]}]
        ELSE a1

\* --------------------------------------------------- notify_quantity_change
\* a non-zero delta writes a QuantityChangeLog row and commits the session;
\* when that commit fails the session is rolled back and the error swallowed
QuantityChanged(id, old, new) ==
    [type |-> "quantity_changed", id |-> id, old |-> old, new |-> new,
     delta |-> new - old,
     change_type |-> IF new - old > 0 THEN "increase" ELSE "decrease"]

notify_quantity_change(acc, id, old, new, commitFails) ==
    IF new - old = 0 THEN acc
    ELSE LET a1 == IF commitFails THEN [acc EXCEPT !.ss = acc.cm, !.lost = TRUE]
                   ELSE [acc EXCEPT !.cm = acc.ss]
         IN  [a1 EXCEPT !.ev = Append(@, QuantityChanged(id, old, new))]

\* ------------------------------------------------- _apply_inventory_updates
NewId(its) == SetMax((DOMAIN its) \cup {0}) + 1

\* a new FruitInventory row, added and flushed (main.py 1299-1317, 1328-1346)
ApplyCreate(acc, u, commitFails) ==
    LET id == NewId(acc.ss.items)
        a1 == [acc EXCEPT !.ss.items = Put(@, id, [cat |-> u.cat, qty |-> u.new]),
                          !.cache = Put(@, u.cat, [id |-> id, qty |-> u.new]),
                          !.wr = @ \cup {id},
                          !.th = IF u.new > 0 THEN @ \cup {u.cat} ELSE @]
        a2 == IF u.f # NoScore THEN update_freshness_for_item(a1, id, u.f) ELSE a1
        a3 == notify_quantity_change(a2, id, 0, u.new, commitFails)
    IN  [a3 EXCEPT !.ev = Append(@, [type |-> "inventory_added", id |-> id])]

\* Mutant: an update to quantity 0 deletes the row.
ApplyUpdateDeletesAtZero(acc, u, commitFails) ==
    IF u.type = "update" /\ u.new = 0
    THEN [acc EXCEPT !.ss.items = Pop(@, u.id), !.ss.fresh = Pop(@, u.id),
                     !.cache = Pop(@, u.cat)]
    ELSE IF u.type = "freshness_only"
    THEN update_freshness_for_item(acc, u.id, u.f)
    ELSE ApplyCreate(acc, u, commitFails)

\* one element of updates_to_process (main.py 1267-1349)
ApplyUpdate(acc, u, commitFails) ==
    IF u.type = "update"
    THEN IF u.id \in DOMAIN acc.ss.items
         THEN LET a1 == [acc EXCEPT !.ss.items[u.id].qty = u.new,
                                     !.wr = @ \cup {u.id}]
                  a2 == [notify_quantity_change(a1, u.id, u.old, u.new, commitFails)
                            EXCEPT !.th = IF u.new > 0 THEN @ \cup {u.cat} ELSE @]
                  a3 == IF u.f # NoScore
                        THEN update_freshness_for_item(a2, u.id, u.f) ELSE a2
              IN  [a3 EXCEPT !.cache = Put(@, u.cat, [id |-> u.id, qty |-> u.new])]
         ELSE ApplyCreate([acc EXCEPT !.cache = Pop(@, u.cat)], u, commitFails)
    ELSE IF u.type = "create"
    THEN ApplyCreate(acc, u, commitFails)
    ELSE update_freshness_for_item(acc, u.id, u.f)

\* What can go wrong at the store during one batch: nothing; an exception
\* out of the k-th update (session.get or flush raising); the commit inside
\* notify_quantity_change of the k-th update failing; the final commit failing.
NoFault == [kind |-> "none", at |-> 0]

Faults(ups) ==
    {NoFault}
    \cup (IF Len(ups) > 0 THEN {[kind |-> "commit", at |-> 0]} ELSE {})
    \cup {[kind |-> k, at |-> i] : k \in {"raise", "logfail"}, i \in 1..Len(ups)}

RECURSIVE ApplyFrom(_, _, _, _)
ApplyFrom(acc, ups, i, fault) ==
    IF i > Len(ups)
    THEN IF fault.kind = "commit"
         THEN [acc EXCEPT !.ok = FALSE]
         ELSE [acc EXCEPT !.cm = acc.ss]                      \* db.session.commit()
    ELSE IF fault.kind = "raise" /\ fault.at = i
    THEN [acc EXCEPT !.ok = FALSE]
    ELSE ApplyFrom(ApplyUpdate(acc, ups[i], fault.kind = "logfail" /\ fault.at = i),
                   ups, i + 1, fault)

\* the committed store, the cache and the requests started, after the batch
_apply_inventory_updates(ups, store, cch, fault) ==
    LET acc0 == [cm |-> store, ss |-> store, cache |-> cch, trig |-> {},
                 ok |-> TRUE, lost |-> FALSE, wr |-> {}, ev |-> << >>,
                 th |-> {}]
    IN  IF ups = << >> THEN acc0 ELSE ApplyFrom(acc0, ups, 1, fault)

\* Mutant: a freshness-only update is read like a count update, with the
\* default of the missing quantity.
UpdatePreviousAllTypes(prv, ups, cur) ==
    [c \in (DOMAIN prv) \cup {ups[i].cat : i \in DOMAIN ups} |->
        IF \E i \in DOMAIN ups : ups[i].cat = c
        THEN LET u == ups[CHOOSE i \in DOMAIN ups : ups[i].cat = c]
             IN  IF IsCountDelta(u) THEN u.new ELSE 0
        ELSE prv[c]]

\* previous_class_counts after a batch that did not raise (main.py 1452-1459)
UpdatePrevious(prv, ups, cur) ==
    [c \in (DOMAIN prv) \cup {ups[i].cat : i \in DOMAIN ups} |->
        IF \E i \in DOMAIN ups : ups[i].cat = c
        THEN LET u == ups[CHOOSE i \in DOMAIN ups : ups[i].cat = c]
             IN  IF IsCountDelta(u) THEN u.new ELSE Get(cur, c, 0)
        ELSE prv[c]]


\* ================================================== frame processing steps
\* the frames in progress without the one of thread t
Without(ord, t) == SelectSeq(ord, LAMBDA x : x # t)

\* the threads whose frame was received before the frame of thread t
ReceivedBefore(ord, t) ==
    { ord[i] : i \in { j \in 1..Len(ord) : \E k \in (j + 1)..Len(ord) : ord[k] = t } }

\* Mutant: the throttle is missing, every frame runs detection.
AlwaysDetect(t, last) == TRUE

\* time_since_last_detection >= detection_delta (main.py 1430, 1510)
NeedsDetection(t, last) == t - last >= DetectionDelta

AfterPrepare(rest) == IF rest = << >> THEN "apply" ELSE "gate"

\* A frame is read (local mode: the producer thread, thread 1) or received
\* and handed to a new thread (proxy mode); the throttle is evaluated.
Arrive(t) ==
    /\ pc[t] = "idle"
    /\ mode = "local" => t = 1
    /\ ctime' = [ctime EXCEPT ![t] = now]
    /\ IF NeedsDetection(now, lastDet)
       THEN /\ pc' = [pc EXCEPT ![t] = "detect"]
            /\ det' = det
       ELSE /\ pc' = [pc EXCEPT ![t] = "cached"]
            /\ det' = det
    /\ result' = result
    /\ arrival' = Append(arrival, t)
    /\ UNCHANGED <<cfgV, now, storeV, trackV, detV, todo, upd, budgetV, triggers,
                   emitLog, writes, events, overtaken>>
    /\ UNCHANGED <<bcastVars, aiVars, streamVars, auxVars>>

\* the else branch: processed_detections = cached_detections (1462, 1542)
UseCached(t) ==
    /\ pc[t] = "cached"
    /\ det' = [det EXCEPT ![t] = cachedDet]
    /\ pc' = [pc EXCEPT ![t] = "bcast"]
    /\ UNCHANGED <<cfgV, now, storeV, trackV, detV, ctime, result, todo, upd, budgetV, ghostV>>
    /\ UNCHANGED <<bcastVars, aiVars, streamVars, auxVars>>

\* detect() and _process_detections() return; the detection cache and
\* last_detection_time are written (main.py 1432-1441, 1512-1521)
Detect(t) ==
    /\ pc[t] = "detect"
    /\ \E detections \in DetectionsOf(feed) :
        LET d    == Summary(_process_detections(detections))
            rest == all_fruit_types(_count_detected_classes(d), prev)
        IN  /\ result' = [result EXCEPT ![t] = detections]
            /\ det' = [det EXCEPT ![t] = d]
            /\ cachedDet' = d
            /\ todo' = [todo EXCEPT ![t] = rest]
            /\ pc' = [pc EXCEPT ![t] = AfterPrepare(rest)]
            /\ category_images_memory_cache' =
                    IF imaging THEN BufferCrops(category_images_memory_cache, d)
                               ELSE category_images_memory_cache
    /\ lastDet' = ctime[t]
    /\ upd' = [upd EXCEPT ![t] = << >>]
    /\ UNCHANGED <<cfgV, now, storeV, trackV, ctime, budgetV, ghostV>>
    /\ UNCHANGED <<bcastVars, aiVars, streamVars, restVars, imaging, files, deletions, max_images>>

\* _prepare_inventory_updates reads the gate of the next category
Gate(t) ==
    /\ pc[t] = "gate"
    /\ IF GateOpen(lastUpd, Head(todo[t]), ctime[t])
       THEN /\ pc' = [pc EXCEPT ![t] = "stamp"]
            /\ todo' = todo
       ELSE /\ pc' = [pc EXCEPT ![t] = AfterPrepare(Tail(todo[t]))]
            /\ todo' = [todo EXCEPT ![t] = Tail(@)]
    /\ UNCHANGED <<cfgV, now, storeV, trackV, detV, ctime, result, det, upd, budgetV, ghostV>>
    /\ UNCHANGED <<bcastVars, aiVars, streamVars, auxVars>>

\* ... stamps last_updated_time and prepares the category's update
Stamp(t) ==
    /\ pc[t] = "stamp"
    /\ LET c == Head(todo[t])
           r == PrepareCategory(c, _count_detected_classes(det[t]), prev,
                                _calculate_freshness_updates(det[t]), cache)
       IN  /\ lastUpd' = Put(lastUpd, c, ctime[t])
           /\ cache' = r.cache
           /\ upd' = [upd EXCEPT ![t] = @ \o r.ups]
           /\ emitLog' = IF r.ups # << >> /\ IsCountDelta(r.ups[1])
                         THEN Append(emitLog, <<c, ctime[t]>>) ELSE emitLog
           /\ deletions' = IF imaging /\ StartsDeletion(c, _count_detected_classes(det[t]), prev)
                           THEN deletions \cup {c} ELSE deletions
    /\ todo' = [todo EXCEPT ![t] = Tail(@)]
    /\ pc' = [pc EXCEPT ![t] = AfterPrepare(Tail(todo[t]))]
    /\ UNCHANGED <<cfgV, now, storeV, prev, detV, ctime, result, det, budgetV, triggers,
                   writes, events, arrival, overtaken>>
    /\ UNCHANGED <<bcastVars, aiVars, streamVars, restVars, imaging,
                   category_images_memory_cache, files, max_images>>

\* _apply_inventory_updates and the update of previous_class_counts.  An
\* exception ends the producer loop (local) or the frame's thread (proxy).
Apply(t) ==
    /\ pc[t] = "apply"
    /\ \E fault \in (IF faultsLeft > 0 THEN Faults(upd[t]) ELSE {NoFault}) :
        LET r == _apply_inventory_updates(upd[t], [items |-> items, fresh |-> fresh],
                                          cache, fault)
        IN  /\ items' = r.cm.items
            /\ fresh' = r.cm.fresh
            /\ cache' = r.cache
            /\ triggers' = r.trig
            /\ writes' = r.wr
            /\ events' = r.ev
            /\ files' = IF imaging THEN SaveThumbnails(files, r.th, now) ELSE files
            /\ faultsLeft' = IF fault = NoFault THEN faultsLeft ELSE faultsLeft - 1
            /\ IF r.ok
               THEN /\ prev' = UpdatePrevious(prev, upd[t], _count_detected_classes(det[t]))
                    /\ pc' = [pc EXCEPT ![t] = "bcast"]
                    /\ UNCHANGED <<arrival, overtaken>>
               ELSE /\ prev' = prev
                    /\ pc' = [pc EXCEPT ![t] = IF mode = "local" THEN "ended" ELSE "idle"]
                    /\ arrival' = Without(arrival, t)
                    /\ overtaken' = overtaken \ {t}
    /\ UNCHANGED <<cfgV, now, lastUpd, detV, ctime, result, det, todo, upd, httpLeft, emitLog>>
    /\ UNCHANGED <<bcastVars, aiVars, streamVars, restVars, imaging,
                   category_images_memory_cache, deletions, max_images>>

\* _calculate_fps and _broadcast_frame_to_frontend; the iteration or thread ends
Broadcast(t) ==
    /\ pc[t] = "bcast"
    /\ pc' = [pc EXCEPT ![t] = "idle"]
    /\ det' = [det EXCEPT ![t] = NoDetections]
    /\ result' = [result EXCEPT ![t] = << >>]
    /\ upd' = [upd EXCEPT ![t] = << >>]
    /\ writes' = {}
    /\ events' = << >>
    /\ arrival' = Without(arrival, t)
    /\ overtaken' = (overtaken \cup ReceivedBefore(arrival, t)) \ {t}
    /\ UNCHANGED <<cfgV, now, storeV, trackV, detV, ctime, todo, budgetV, triggers, emitLog>>
    /\ UNCHANGED <<bcastVars, aiVars, streamVars, auxVars>>

\* time passes; the model looks at the clock when a frame can arrive
Tick ==
    /\ now < MaxTime
    /\ \E t \in Threads : pc[t] = "idle" /\ (mode = "local" => t = 1)
    /\ now' = now + 1
    /\ UNCHANGED <<cfgV, storeV, trackV, detV, frameV, budgetV, ghostV>>
    /\ UNCHANGED <<bcastVars, aiVars, streamVars, auxVars>>

\* ------------------------------------------------------ HTTP inventory API
\* PUT /api/inventory/<id> with a quantity (api/inventory.py 111-153)
update_inventory_item(id, q) ==
    /\ httpLeft > 0
    /\ id \in DOMAIN items
    /\ items' = [items EXCEPT ![id].qty = q]
    /\ httpLeft' = httpLeft - 1
    /\ UNCHANGED <<cfgV, now, fresh, trackV, detV, frameV, faultsLeft, ghostV>>
    /\ UNCHANGED <<bcastVars, aiVars, streamVars, auxVars>>

\* POST /api/inventory (api/inventory.py 76-108): a row is added and committed
create_inventory_item(c, q) ==
    /\ httpLeft > 0
    /\ items' = Put(items, NewId(items), [cat |-> c, qty |-> q])
    /\ httpLeft' = httpLeft - 1
    /\ UNCHANGED <<cfgV, now, fresh, trackV, detV, frameV, faultsLeft, ghostV>>
    /\ UNCHANGED <<bcastVars, aiVars, streamVars, auxVars>>

\* DELETE /api/inventory/<id>; the freshness row goes with it (cascade)
delete_inventory_item(id) ==
    /\ httpLeft > 0
    /\ id \in DOMAIN items
    /\ items' = Pop(items, id)
    /\ fresh' = Pop(fresh, id)
    /\ httpLeft' = httpLeft - 1
    /\ UNCHANGED <<cfgV, now, trackV, detV, frameV, faultsLeft, ghostV>>
    /\ UNCHANGED <<bcastVars, aiVars, streamVars, auxVars>>

\* POST /api/freshness/update (main.py 203-283): the row is committed, then
\* the trigger is evaluated; on a row made by this request old_discount is
\* None, the comparison raises and the handler answers with an error.
update_freshness(id, score) ==
    /\ httpLeft > 0
    /\ id \in DOMAIN items
    /\ LET old == IF id \in DOMAIN fresh THEN fresh[id].disc ELSE NoDisc
           new == calculate_discount(score)
       IN  /\ fresh' = Put(fresh, id, [score |-> score, disc |-> new])
           /\ triggers' = IF ShouldTrigger(old, new)
                           THEN {[id |-> id, old |-> old, new |-> new,
                                  algorithm |-> TRUE]}
                           ELSE {}
    /\ httpLeft' = httpLeft - 1
    /\ UNCHANGED <<cfgV, now, items, trackV, detV, frameV, faultsLeft, emitLog,
                   writes, events, arrival, overtaken>>
    /\ UNCHANGED <<bcastVars, aiVars, streamVars, auxVars>>


\* ------------------------------------------------------ the next session
\* what a new process_frame thread starts from (main.py 1394-1409)
LocalCameraState(its) ==
    [cache |-> _initialize_cache(its), prev |-> EmptyDict, lastUpd |-> EmptyDict,
     lastDet |-> 0, cachedDet |-> NoDetections]

\* proxy_state_global is made when it is None, which it is only before the
\* first connection (main.py 989); later connections get it as it stands
_initialize_proxy_state(cur) == cur

\* A streaming session has ended (stop command or connection closed, no
\* frame in progress) and the next one starts: command 'start' in local
\* mode, a new /ws/stream_video connection in proxy mode.
NewSession ==
    /\ session < MaxSessions
    /\ \A t \in Threads : pc[t] = "idle"
    /\ session' = session + 1
    /\ LET cur == [cache |-> cache, prev |-> prev, lastUpd |-> lastUpd,
                   lastDet |-> lastDet, cachedDet |-> cachedDet]
           st  == IF mode = "local" THEN LocalCameraState(items)
                                    ELSE _initialize_proxy_state(cur)
       IN  /\ cache' = st.cache
           /\ prev' = st.prev
           /\ lastUpd' = st.lastUpd
           /\ lastDet' = st.lastDet
           /\ cachedDet' = st.cachedDet
    /\ UNCHANGED <<mode, feed, now, storeV, frameV, budgetV, ghostV>>
    /\ UNCHANGED <<bcastVars, aiVars, streamVars, auxVars>>

\* ------------------------------------------------------------ start-up
\* the pipeline after _initialize_local_camera_state / _initialize_proxy_state
PipeInit(m, fd, stores, http, faults) ==
    /\ mode = m
    /\ feed = fd
    /\ session = 1
    /\ now = DetectionDelta
    /\ \E s \in stores :
        /\ items = s.items
        /\ fresh = s.fresh
        /\ cache = _initialize_cache(s.items)
    /\ prev = EmptyDict
    /\ lastUpd = EmptyDict
    /\ lastDet = 0
    /\ cachedDet = NoDetections
    /\ pc = [t \in Threads |-> "idle"]
    /\ ctime = [t \in Threads |-> 0]
    /\ det = [t \in Threads |-> NoDetections]
    /\ result = [t \in Threads |-> << >>]
    /\ todo = [t \in Threads |-> << >>]
    /\ upd = [t \in Threads |-> << >>]
    /\ httpLeft = http
    /\ faultsLeft = faults
    /\ triggers = {}
    /\ emitLog = << >>
    /\ writes = {}
    /\ events = << >>
    /\ arrival = << >>
    /\ overtaken = {}

FrameStep ==
    \/ \E t \in Threads : Arrive(t)
    \/ \E t \in Threads : UseCached(t)
    \/ \E t \in Threads : Detect(t)
    \/ \E t \in Threads : Gate(t)
    \/ \E t \in Threads : Stamp(t)
    \/ \E t \in Threads : Apply(t)
    \/ \E t \in Threads : Broadcast(t)
    \/ Tick


\* ========================================= _broadcast_frame_to_frontend
\* five observers, as in the documented scenario
Observers == 1..5

\* Mutant: a failed send does not remove the observer from the registry.
BroadcastKeepsDead(reg, failMeta, failFrame) ==
    [registry |-> reg,
     sent |-> [o \in Observers |->
                 IF o \notin reg \/ o \in failMeta THEN 0
                 ELSE IF o \in failFrame THEN 1 ELSE 2]]

\* The loop over list(frontend_video_connections), in ascending order of the
\* observers: order is what is left to visit, acc.registry the registry and
\* acc.sent the messages each observer got.  A send to an observer of
\* failMeta raises at the metadata message, to one of failFrame at the frame
\* bytes; the except branch discards the observer and the loop goes on.
RECURSIVE SendLoop(_, _, _, _)
SendLoop(order, acc, failMeta, failFrame) ==
    IF order = << >> THEN acc
    ELSE LET ws == Head(order)
             a1 == IF ws \in failMeta
                   THEN [acc EXCEPT !.registry = @ \ {ws}]
                   ELSE IF ws \in failFrame
                   THEN [acc EXCEPT !.sent[ws] = 1, !.registry = @ \ {ws}]
                   ELSE [acc EXCEPT !.sent[ws] = 2]
         IN  SendLoop(Tail(order), a1, failMeta, failFrame)

RECURSIVE ListOf(_)
ListOf(S) ==
    IF S = {} THEN << >>
    ELSE LET m == CHOOSE x \in S : \A y \in S : x <= y
         IN  <<m>> \o ListOf(S \ {m})

_broadcast_frame_to_frontend(reg, failMeta, failFrame) ==
    SendLoop(ListOf(reg), [registry |-> reg, sent |-> [o \in Observers |-> 0]],
             failMeta, failFrame)

\* a frontend opens /ws/stream_video (main.py 1365)
Connect(o) ==
    /\ o \notin registry
    /\ registry' = registry \cup {o}
    /\ UNCHANGED <<frameNo, sent, failed>>
    /\ UNCHANGED <<pipeVars, aiVars, streamVars, auxVars>>

\* its handler ends (main.py 1653)
Disconnect(o) ==
    /\ o \in registry
    /\ registry' = registry \ {o}
    /\ UNCHANGED <<frameNo, sent, failed>>
    /\ UNCHANGED <<pipeVars, aiVars, streamVars, auxVars>>

\* one call of _broadcast_frame_to_frontend; which sends raise is an input
BroadcastFrame ==
    /\ frameNo < MaxFrames
    /\ \E failMeta \in SUBSET registry :
       \E failFrame \in SUBSET (registry \ failMeta) :
        LET r == _broadcast_frame_to_frontend(registry, failMeta, failFrame)
        IN  /\ registry' = r.registry
            /\ sent' = r.sent
            /\ failed' = failMeta \cup failFrame
    /\ frameNo' = frameNo + 1
    /\ UNCHANGED <<pipeVars, aiVars, streamVars, auxVars>>

BcastInit ==
    /\ registry = {}
    /\ frameNo = 0
    /\ sent = [o \in Observers |-> 0]
    /\ failed = {}


\* ================================= _generate_recommendations_threaded
\* The threads started by generate_recommendations_for_item(algorithm=False,
\* rate_limited=True).  clock is time.time() in whole seconds, lastAi is
\* _last_ai_call_time, lock the holder of _ai_call_lock (0: free), rtime[r]
\* the current_time thread r read under the lock, aiCalls the log of the
\* admission times and checked the number of requests that reached the check.
Requesters == 1..NRequesters

\* Mutant: the check-and-stamp runs without the lock.
LockAlwaysFree(l) == TRUE

\* with _ai_call_lock: entered only when no thread holds it
LockFree(l) == l = 0

InFlight == Cardinality({r \in Requesters : rpc[r] \in {"wait", "locked"}})

\* Mutant: the limiter comes before the choice of the matcher.
RouteLimitsFirst(algorithm, rate_limited) ==
    IF rate_limited THEN "wait" ELSE IF algorithm THEN "simple" ELSE "call"

\* the branch of _generate_recommendations_threaded (helpers.py 459-479):
\* the simple matcher, the limiter, or the AI matcher straight away
Route(algorithm, rate_limited) ==
    IF algorithm THEN "simple" ELSE IF rate_limited THEN "wait" ELSE "call"

\* threading.Thread(target=_generate_recommendations_threaded).start()
Request(r, algorithm, rate_limited) ==
    /\ rpc[r] = "idle"
    /\ Route(algorithm, rate_limited) = "wait" => checked + InFlight < MaxRequests
    /\ rpc' = [rpc EXCEPT ![r] = Route(algorithm, rate_limited)]
    /\ ralg' = [ralg EXCEPT ![r] = algorithm]
    /\ UNCHANGED <<clock, lastAi, lock, rtime, aiCalls, checked>>
    /\ UNCHANGED <<pipeVars, bcastVars, streamVars, auxVars>>

Acquire(r) ==
    /\ rpc[r] = "wait"
    /\ LockFree(lock)
    /\ lock' = r
    /\ rpc' = [rpc EXCEPT ![r] = "locked"]
    /\ UNCHANGED <<clock, lastAi, rtime, ralg, aiCalls, checked>>
    /\ UNCHANGED <<pipeVars, bcastVars, streamVars, auxVars>>

\* lines 465-471: read the time, return (releasing the lock) when the last
\* admitted call is less than the interval old
Check(r) ==
    /\ rpc[r] = "locked"
    /\ checked' = checked + 1
    /\ IF clock - lastAi < AI_RECOMMENDATION_INTERVAL
       THEN /\ rpc' = [rpc EXCEPT ![r] = "idle"]
            /\ lock' = 0
            /\ rtime' = rtime
            /\ ralg' = [ralg EXCEPT ![r] = FALSE]
       ELSE /\ rpc' = [rpc EXCEPT ![r] = "stamp"]
            /\ lock' = lock
            /\ rtime' = [rtime EXCEPT ![r] = clock]
            /\ ralg' = ralg
    /\ UNCHANGED <<clock, lastAi, aiCalls>>
    /\ UNCHANGED <<pipeVars, bcastVars, streamVars, auxVars>>

\* line 474 and the end of the with block: the call is admitted
StampAi(r) ==
    /\ rpc[r] = "stamp"
    /\ lastAi' = rtime[r]
    /\ aiCalls' = Append(aiCalls, rtime[r])
    /\ lock' = 0
    /\ rpc' = [rpc EXCEPT ![r] = "call"]
    /\ rtime' = [rtime EXCEPT ![r] = 0]
    /\ UNCHANGED <<clock, ralg, checked>>
    /\ UNCHANGED <<pipeVars, bcastVars, streamVars, auxVars>>

\* line 477: _generate_recommendations_with_ai runs outside the lock
CallAi(r) ==
    /\ rpc[r] = "call"
    /\ rpc' = [rpc EXCEPT ![r] = "idle"]
    /\ ralg' = [ralg EXCEPT ![r] = FALSE]
    /\ UNCHANGED <<clock, lastAi, lock, rtime, aiCalls, checked>>
    /\ UNCHANGED <<pipeVars, bcastVars, streamVars, auxVars>>

\* line 460: _generate_recommendations_simple runs and the thread ends
CallSimple(r) ==
    /\ rpc[r] = "simple"
    /\ rpc' = [rpc EXCEPT ![r] = "idle"]
    /\ ralg' = [ralg EXCEPT ![r] = FALSE]
    /\ UNCHANGED <<clock, lastAi, lock, rtime, aiCalls, checked>>
    /\ UNCHANGED <<pipeVars, bcastVars, streamVars, auxVars>>

TickAi ==
    /\ clock < MaxClock
    /\ clock' = clock + 1
    /\ UNCHANGED <<lastAi, lock, rpc, rtime, ralg, aiCalls, checked>>
    /\ UNCHANGED <<pipeVars, bcastVars, streamVars, auxVars>>

\* _last_ai_call_time = 0 at import; the wall clock is far past the interval
AiInit ==
    /\ clock = AI_RECOMMENDATION_INTERVAL
    /\ lastAi = 0
    /\ lock = 0
    /\ rpc = [r \in Requesters |-> "idle"]
    /\ rtime = [r \in Requesters |-> 0]
    /\ ralg = [r \in Requesters |-> FALSE]
    /\ aiCalls = << >>
    /\ checked = 0


\* ============================== stream_video_websocket, local camera
\* camera is the capture the handler's variable names (0: None), opened the
\* state of every cv2.VideoCapture made so far, streaming the flag the
\* handler and process_frame share, hpc the handler's position, ppc[p] the
\* position of producer thread p in process_frame and reading[p] the capture
\* its camera.read() is running on (0: none).
Captures == 1..MaxCaptures
Producers == 1..MaxProducers

Unused(S, f, v) == {x \in S : f[x] = v}

Least(S) == CHOOSE x \in S : \A y \in S : x <= y

\* Mutant: the result of the open is not looked at.
StartCmdIgnoresFailure ==
    /\ hpc = "listen"
    /\ camera = 0
    /\ Unused(Captures, opened, "unused") # {}
    /\ Unused(Producers, ppc, "unborn") # {}
    /\ LET c == Least(Unused(Captures, opened, "unused"))
       IN  \E ok \in BOOLEAN :
            /\ camera' = c
            /\ opened' = [opened EXCEPT ![c] = IF ok THEN "open" ELSE "failed"]
            /\ streaming' = TRUE
            /\ ppc' = [ppc EXCEPT ![Least(Unused(Producers, ppc, "unborn"))] = "top"]
            /\ reply' = "started"
    /\ UNCHANGED <<hpc, reading>>
    /\ UNCHANGED <<pipeVars, bcastVars, aiVars, auxVars>>

\* command 'start' (1595-1621); ok: VideoCapture opened the device.  A failed
\* open leaves camera naming the dead capture, and while camera names a
\* capture a start is answered with 'Camera already started'.
StartCmd ==
    /\ hpc = "listen"
    /\ IF camera # 0
       THEN /\ reply' = "already_started"
            /\ UNCHANGED <<camera, opened, streaming, ppc>>
       ELSE /\ Unused(Captures, opened, "unused") # {}
            /\ LET c == Least(Unused(Captures, opened, "unused"))
               IN  \E ok \in BOOLEAN :
                    /\ camera' = c
                    /\ IF ok
                       THEN /\ Unused(Producers, ppc, "unborn") # {}
                            /\ opened' = [opened EXCEPT ![c] = "open"]
                            /\ streaming' = TRUE
                            /\ ppc' = [ppc EXCEPT
                                         ![Least(Unused(Producers, ppc, "unborn"))] = "top"]
                            /\ reply' = "started"
                       ELSE /\ opened' = [opened EXCEPT ![c] = "failed"]
                            /\ reply' = "failed_to_open"
                            /\ UNCHANGED <<streaming, ppc>>
    /\ UNCHANGED <<hpc, reading>>
    /\ UNCHANGED <<pipeVars, bcastVars, aiVars, auxVars>>

\* Mutant: the stop command leaves the streaming flag as it is.
StopCmdKeepsFlag ==
    /\ hpc = "listen"
    /\ hpc' = "stopSleep"
    /\ UNCHANGED <<camera, opened, streaming, ppc, reading, reply>>
    /\ UNCHANGED <<pipeVars, bcastVars, aiVars, auxVars>>

\* command 'stop', line 1624, then time.sleep(0.1)
StopCmd ==
    /\ hpc = "listen"
    /\ streaming' = FALSE
    /\ hpc' = "stopSleep"
    /\ UNCHANGED <<camera, opened, ppc, reading, reply>>
    /\ UNCHANGED <<pipeVars, bcastVars, aiVars, auxVars>>

\* the connection ends: finally, line 1656, then time.sleep(0.2)
CloseConn ==
    /\ hpc = "listen"
    /\ streaming' = FALSE
    /\ hpc' = "closeSleep"
    /\ UNCHANGED <<camera, opened, ppc, reading, reply>>
    /\ UNCHANGED <<pipeVars, bcastVars, aiVars, auxVars>>

\* the sleep is over: camera.release() and camera = None (1627-1632, 1659-1664)
Release ==
    /\ hpc \in {"stopSleep", "closeSleep"}
    /\ IF camera # 0
       THEN /\ opened' = [opened EXCEPT ![camera] = "released"]
            /\ camera' = 0
       ELSE UNCHANGED <<camera, opened>>
    /\ hpc' = IF hpc = "stopSleep" THEN "listen" ELSE "closed"
    /\ reply' = IF hpc = "stopSleep" THEN "stopped" ELSE reply
    /\ UNCHANGED <<streaming, ppc, reading>>
    /\ UNCHANGED <<pipeVars, bcastVars, aiVars, auxVars>>

\* while streaming: (1411)
LoopTop(p) ==
    /\ ppc[p] = "top"
    /\ ppc' = [ppc EXCEPT ![p] = IF streaming THEN "check" ELSE "done"]
    /\ UNCHANGED <<camera, opened, streaming, hpc, reading, reply>>
    /\ UNCHANGED <<pipeVars, bcastVars, aiVars, auxVars>>

\* if camera is None or not camera.isOpened(): break (1414)
CheckCamera(p) ==
    /\ ppc[p] = "check"
    /\ ppc' = [ppc EXCEPT ![p] = IF camera = 0 \/ opened[camera] # "open"
                                 THEN "done" ELSE "call"]
    /\ UNCHANGED <<camera, opened, streaming, hpc, reading, reply>>
    /\ UNCHANGED <<pipeVars, bcastVars, aiVars, auxVars>>

\* camera.read() is entered (1418); on None the AttributeError ends the loop
BeginRead(p) ==
    /\ ppc[p] = "call"
    /\ IF camera = 0
       THEN /\ ppc' = [ppc EXCEPT ![p] = "done"]
            /\ UNCHANGED reading
       ELSE /\ ppc' = [ppc EXCEPT ![p] = "read"]
            /\ reading' = [reading EXCEPT ![p] = camera]
    /\ UNCHANGED <<camera, opened, streaming, hpc, reply>>
    /\ UNCHANGED <<pipeVars, bcastVars, aiVars, auxVars>>

\* camera.read() returns; ret is False on a released capture (1419-1424)
EndRead(p) ==
    /\ ppc[p] = "read"
    /\ ppc' = [ppc EXCEPT ![p] = IF opened[reading[p]] = "open"
                                 THEN "work" ELSE "done"]
    /\ reading' = [reading EXCEPT ![p] = 0]
    /\ UNCHANGED <<camera, opened, streaming, hpc, reply>>
    /\ UNCHANGED <<pipeVars, bcastVars, aiVars, auxVars>>

\* the rest of the iteration (1426-1478); an exception ends the loop (1486)
Work(p) ==
    /\ ppc[p] = "work"
    /\ \E ok \in BOOLEAN :
         ppc' = [ppc EXCEPT ![p] = IF ok THEN "top" ELSE "done"]
    /\ UNCHANGED <<camera, opened, streaming, hpc, reading, reply>>
    /\ UNCHANGED <<pipeVars, bcastVars, aiVars, auxVars>>

StreamInit ==
    /\ camera = 0
    /\ opened = [c \in Captures |-> "unused"]
    /\ streaming = FALSE
    /\ hpc = "listen"
    /\ ppc = [p \in Producers |-> "unborn"]
    /\ reading = [p \in Producers |-> 0]
    /\ reply = "connected"


\* ================================================= rescoring a status row
\* the scores a caller can assign: the scale 0..1 and a margin on both sides
ScoreInputs == (0 - ClampMargin)..(100 + ClampMargin)

\* freshness.freshness_score = s; freshness.discount_percentage =
\* freshness.calculate_discount() (helpers.py 119-125, main.py 243-248)
Rescore(s) ==
    /\ lastScore' = freshness_score
    /\ lastDisc' = discount_percentage
    /\ freshness_score' = s
    /\ discount_percentage' = calculate_discount(s)
    /\ status' = update_status(s)
    /\ UNCHANGED <<pipeVars, bcastVars, aiVars, streamVars, imgVars, matchVars, edgeVars>>

\* a status row scored once, from one of the scores in S
DiscInit(S) ==
    /\ freshness_score \in S
    /\ discount_percentage = calculate_discount(freshness_score)
    /\ status = update_status(freshness_score)
    /\ lastScore = freshness_score
    /\ lastDisc = discount_percentage

\* ---------------------------------------------------- the image side
\* the body of a deletion thread started by _prepare_inventory_updates
RunDelete(c) ==
    /\ c \in deletions
    /\ deletions' = deletions \ {c}
    /\ files' = [files EXCEPT ![c] = delete_category_images(@)]
    /\ UNCHANGED <<imaging, category_images_memory_cache, max_images>>
    /\ UNCHANGED <<pipeVars, bcastVars, aiVars, streamVars, restVars>>

\* GET /api/detection-images/<category>: the crops in memory are written
\* out; when blemish detection ran on a listed image, retention follows
\* (main.py 321-382)
get_detection_images(c) ==
    /\ httpLeft > 0
    /\ httpLeft' = httpLeft - 1
    /\ LET m == _save_memory_images_to_disk(category_images_memory_cache, files, c, now)
       IN  /\ category_images_memory_cache' = m.buf
           /\ \E analysed \in BOOLEAN :
                IF analysed
                THEN /\ \E fs \in keep_latest_images(m.files[c], RetentionCap) :
                            files' = [m.files EXCEPT ![c] = fs]
                     /\ max_images' = RetentionCap
                ELSE /\ files' = m.files
                     /\ max_images' = max_images
    /\ UNCHANGED <<imaging, deletions>>
    /\ UNCHANGED <<cfgV, now, storeV, trackV, detV, frameV, faultsLeft, ghostV>>
    /\ UNCHANGED <<bcastVars, aiVars, streamVars, restVars>>

\* the retention operation on its own: keep_latest_images(category_dir, n)
Retain(c, n) ==
    /\ \E fs \in keep_latest_images(files[c], n) : files' = [files EXCEPT ![c] = fs]
    /\ max_images' = n
    /\ UNCHANGED <<imaging, category_images_memory_cache, deletions>>
    /\ UNCHANGED <<pipeVars, bcastVars, aiVars, streamVars, restVars>>

\* the files a directory under retention can hold: a thumbnail, a processed
\* image and two plain ones written at the same time
RetentionFiles == {ImageFile("thumbnail.", 0, 1), ImageFile("processed_", 1, 2),
                   ImageFile("", 2, 3), ImageFile("", 3, 3)}

\* a directory left by an earlier session: a plain, a processed and a
\* thumbnail image
OldFiles == {ImageFile("", 1, 0), ImageFile("processed_", 2, 0),
             ImageFile("thumbnail.", 0, 0)}

ImgInit(on, dirs) ==
    /\ imaging = on
    /\ category_images_memory_cache = [c \in Categories |-> 0]
    /\ files \in [Categories -> dirs]
    /\ deletions = {}
    /\ max_images = RetentionCap

\* ------------------------------------------------- the simple matcher
\* Customer.query.all(), in order
Customers == 1..NCustomers

\* Evaluating a customer: its preferences match the item ("match"), do not
\* ("skip"), or the evaluation raises ("raise": favorite_fruits is null,
\* max_price is not a number, the JSON is not an object).
Evaluations == {"match", "skip", "raise"}

\* the loop from customer i on, then the commit; an exception anywhere goes
\* to the handler, which rolls the session back (helpers.py 401-437).
\* acc.recs: rows added to the session; acc.sent: customers notified
RECURSIVE MatchFrom(_, _, _)
MatchFrom(prefs, i, acc) ==
    IF i > NCustomers THEN acc
    ELSE IF prefs[i] = "raise" THEN [acc EXCEPT !.recs = {}]
    ELSE IF prefs[i] = "match"
    THEN MatchFrom(prefs, i + 1, [recs |-> acc.recs \cup {i}, sent |-> acc.sent \cup {i}])
    ELSE MatchFrom(prefs, i + 1, acc)

\* for an item with a discount of at least 15
_generate_recommendations_simple ==
    /\ ~matched
    /\ LET r == MatchFrom(preferences, 1, [recs |-> {}, sent |-> {}])
       IN  /\ recommendations' = r.recs
           /\ notified' = r.sent
    /\ matched' = TRUE
    /\ UNCHANGED preferences
    /\ UNCHANGED <<pipeVars, bcastVars, aiVars, streamVars, discVars, imgVars, edgeVars>>

MatchInit(P) ==
    /\ preferences \in P
    /\ recommendations = {}
    /\ notified = {}
    /\ matched = FALSE

\* ================================================== customer sockets
\* customer_websocket (main.py 940-981), one handler per connection, and
\* notify_customer (helpers.py 39-50).  Sockets connect in the order of
\* their numbers.
Sockets == 1..MaxSockets

\* a customer app connects: customer_connections[customer_id] = ws (944)
ConnectCustomer(s, c) ==
    /\ wpc[s] = "unborn"
    /\ \A o \in Sockets : o < s => wpc[o] # "unborn"
    /\ customer_connections' = Put(customer_connections, c, s)
    /\ wsCustomer' = [wsCustomer EXCEPT ![s] = c]
    /\ wpc' = [wpc EXCEPT ![s] = "welcome"]
    /\ UNCHANGED sendFailed
    /\ UNCHANGED <<pipeVars, bcastVars, aiVars, streamVars, imgVars, discVars, matchVars, proxyVars, saveVars>>

\* the welcome message (948-953); a send that raises leads to finally
Welcome(s) ==
    /\ wpc[s] = "welcome"
    /\ \E ok \in BOOLEAN :
         /\ wpc' = [wpc EXCEPT ![s] = IF ok THEN "loop" ELSE "finally"]
         /\ sendFailed' = [sendFailed EXCEPT ![s] = @ \/ ~ok]
    /\ UNCHANGED <<customer_connections, wsCustomer>>
    /\ UNCHANGED <<pipeVars, bcastVars, aiVars, streamVars, imgVars, discVars, matchVars, proxyVars, saveVars>>

\* ws.receive() raises: the customer went away (957-958, 972)
ReceiveRaises(s) ==
    /\ wpc[s] = "loop"
    /\ wpc' = [wpc EXCEPT ![s] = "finally"]
    /\ UNCHANGED <<customer_connections, wsCustomer, sendFailed>>
    /\ UNCHANGED <<pipeVars, bcastVars, aiVars, streamVars, imgVars, discVars, matchVars, proxyVars, saveVars>>

\* finally: if customer_id in customer_connections: del ... (976-978)
Unregister(s) ==
    /\ wpc[s] = "finally"
    /\ customer_connections' = Pop(customer_connections, wsCustomer[s])
    /\ wpc' = [wpc EXCEPT ![s] = "exited"]
    /\ UNCHANGED <<wsCustomer, sendFailed>>
    /\ UNCHANGED <<pipeVars, bcastVars, aiVars, streamVars, imgVars, discVars, matchVars, proxyVars, saveVars>>

\* notify_customer (helpers.py 39-50): a send that raises removes the entry
notify_customer(c) ==
    /\ c \in DOMAIN customer_connections
    /\ \E ok \in BOOLEAN :
         IF ok
         THEN UNCHANGED <<customer_connections, sendFailed>>
         ELSE /\ customer_connections' = Pop(customer_connections, c)
              /\ sendFailed' = [sendFailed EXCEPT ![customer_connections[c]] = TRUE]
    /\ UNCHANGED <<wpc, wsCustomer>>
    /\ UNCHANGED <<pipeVars, bcastVars, aiVars, streamVars, imgVars, discVars, matchVars, proxyVars, saveVars>>

\* customer_connections = {} at import (main.py 95); nobody has connected
CustInit ==
    /\ customer_connections = EmptyDict
    /\ wpc = [s \in Sockets |-> "unborn"]
    /\ wsCustomer = [s \in Sockets |-> 0]
    /\ sendFailed = [s \in Sockets |-> FALSE]

\* ====================================== materialization, step by step
\* _save_memory_images_to_disk (main.py 385-406) as the detection thread
\* sees it: memory_images names the list of the category (391), the for
\* loop walks that list while crops are appended to it (396-403, 1098), and
\* line 406 puts a new empty list in its place.

\* GET /api/detection-images/<category> reaches the call; an empty list
\* returns at once (388-393)
BeginSave(c) ==
    /\ httpLeft > 0
    /\ spc[c] = "idle"
    /\ httpLeft' = httpLeft - 1
    /\ spc' = [spc EXCEPT ![c] = IF category_images_memory_cache[c] = 0
                                 THEN "idle" ELSE "loop"]
    /\ savedIdx' = [savedIdx EXCEPT ![c] = 0]
    /\ UNCHANGED <<cfgV, now, storeV, trackV, detV, frameV, faultsLeft, ghostV>>
    /\ UNCHANGED <<bcastVars, aiVars, streamVars, imgVars, discVars, matchVars,
                   proxyVars, custVars>>

\* one turn of the for loop: the next crop of the list is saved, or the
\* list is exhausted and the loop is left (396-403)
SaveNext(c) ==
    /\ spc[c] = "loop"
    /\ IF savedIdx[c] < category_images_memory_cache[c]
       THEN /\ files' = [files EXCEPT ![c] = save_processed_image(@, now)]
            /\ savedIdx' = [savedIdx EXCEPT ![c] = @ + 1]
            /\ UNCHANGED spc
       ELSE /\ spc' = [spc EXCEPT ![c] = "clear"]
            /\ UNCHANGED <<files, savedIdx>>
    /\ UNCHANGED <<imaging, category_images_memory_cache, deletions, max_images>>
    /\ UNCHANGED <<pipeVars, bcastVars, aiVars, streamVars, discVars, matchVars,
                   proxyVars, custVars>>

\* category_images_memory_cache[category_lower] = [] (406)
ClearBuffer(c) ==
    /\ spc[c] = "clear"
    /\ category_images_memory_cache' = [category_images_memory_cache EXCEPT ![c] = 0]
    /\ spc' = [spc EXCEPT ![c] = "idle"]
    /\ UNCHANGED savedIdx
    /\ UNCHANGED <<imaging, files, deletions, max_images>>
    /\ UNCHANGED <<pipeVars, bcastVars, aiVars, streamVars, discVars, matchVars,
                   proxyVars, custVars>>

\* no call in progress
SaveInit ==
    /\ spc = [c \in Categories |-> "idle"]
    /\ savedIdx = [c \in Categories |-> 0]

\* ==================================================== the camera proxy
\* CameraProxy.run (camera_proxy.py 269-313), step by step, awaited by main
\* (315-339).  run catches every Exception of its body and returns; only an
\* exception out of its finally block reaches main.

\* how a run ends for main: 'except Exception' (302) has swallowed the
\* failure; release_camera() in the finally block (306) is unguarded
RunEnds(runHadFailure, cleanupRaises) ==
    IF cleanupRaises THEN "raised" ELSE "returned"

\* self.connect_camera() (273): RuntimeError when the camera cannot be opened
ConnectCamera ==
    /\ mpc = "camera"
    /\ \E ok \in BOOLEAN :
         IF ok THEN mpc' = "backend" /\ runFailed' = runFailed
               ELSE mpc' = "finally" /\ runFailed' = TRUE
    /\ UNCHANGED <<attempt, framesSent>>
    /\ UNCHANGED <<pipeVars, bcastVars, aiVars, streamVars, imgVars, discVars, matchVars, custVars, saveVars>>

\* if not await self.connect_to_backend(): return (276-277)
ConnectBackend ==
    /\ mpc = "backend"
    /\ \E ok \in BOOLEAN :
         IF ok THEN mpc' = "stream" /\ runFailed' = runFailed
               ELSE mpc' = "finally" /\ runFailed' = TRUE
    /\ UNCHANGED <<attempt, framesSent>>
    /\ UNCHANGED <<pipeVars, bcastVars, aiVars, streamVars, imgVars, discVars, matchVars, custVars, saveVars>>

\* stream_frames (223-267): a frame is sent
SendFrame ==
    /\ mpc = "stream"
    /\ framesSent < MaxProxyFrames
    /\ framesSent' = framesSent + 1
    /\ UNCHANGED <<attempt, mpc, runFailed>>
    /\ UNCHANGED <<pipeVars, bcastVars, aiVars, streamVars, imgVars, discVars, matchVars, custVars, saveVars>>

\* the loop ends: the backend sent 'stop' (201-203), or the connection was
\* lost and handle_backend_messages cleared self.running (216-221)
EndStream ==
    /\ mpc = "stream"
    /\ \E lost \in BOOLEAN : runFailed' = lost
    /\ mpc' = "finally"
    /\ UNCHANGED <<attempt, framesSent>>
    /\ UNCHANGED <<pipeVars, bcastVars, aiVars, streamVars, imgVars, discVars, matchVars, custVars, saveVars>>

\* the finally block of run, then main's try / except around await
\* proxy.run(): break, or sleep and the next attempt, or the end of the loop
RunReturns ==
    /\ mpc = "finally"
    /\ \E cleanupRaises \in BOOLEAN :
         /\ mpc' = IF RunEnds(runFailed, cleanupRaises) = "returned" THEN "done"
                    ELSE IF attempt < max_retries - 1 THEN "sleep"
                    ELSE "done"
         /\ runFailed' = (runFailed \/ cleanupRaises)
    /\ UNCHANGED <<attempt, framesSent>>
    /\ UNCHANGED <<pipeVars, bcastVars, aiVars, streamVars, imgVars, discVars, matchVars, custVars, saveVars>>

\* await asyncio.sleep(retry_delay) is over: the next iteration of the loop
Retry ==
    /\ mpc = "sleep"
    /\ attempt' = attempt + 1
    /\ mpc' = "camera"
    /\ runFailed' = FALSE
    /\ framesSent' = 0
    /\ UNCHANGED <<pipeVars, bcastVars, aiVars, streamVars, imgVars, discVars, matchVars, custVars, saveVars>>

\* main has made the CameraProxy and enters the loop; on is FALSE where the
\* proxy process is not followed
ProxyInit(on) ==
    /\ attempt = 0
    /\ mpc = IF on THEN "camera" ELSE "off"
    /\ runFailed = FALSE
    /\ framesSent = 0

EdgeInit == ProxyInit(FALSE) /\ CustInit /\ SaveInit

\* nothing rescored, no image followed, no customer matched
SimpleInit ==
    /\ DiscInit({100})
    /\ ImgInit(FALSE, {{}})
    /\ MatchInit({[c \in Customers |-> "skip"]})

AuxInit ==
    /\ EdgeInit
    /\ DiscInit({100})
    /\ ImgInit(FALSE, {{}})
    /\ MatchInit({[c \in Customers |-> "skip"]})


\* ======================================================== specifications
\* Local camera: one producer thread; the inventory API changes rows meanwhile.
Init ==
    /\ PipeInit("local", "mixed", InitStores, MaxHttp, 0)
    /\ BcastInit /\ AiInit /\ StreamInit /\ AuxInit

Next ==
    \/ FrameStep
    \/ \E id \in DOMAIN items, q \in 0..MaxCount : update_inventory_item(id, q)
    \/ \E id \in DOMAIN items : delete_inventory_item(id)
    \/ \E c \in Categories, q \in 0..MaxCount : create_inventory_item(c, q)

Spec == Init /\ [][Next]_vars

\* Local camera alone: no API request, no store error.
InitLocal ==
    /\ PipeInit("local", "mixed", InitStores, 0, 0)
    /\ BcastInit /\ AiInit /\ StreamInit /\ AuxInit

SpecLocal == InitLocal /\ [][FrameStep]_vars

\* Local camera with store errors during a batch.
InitFaults ==
    /\ PipeInit("local", "mixed", InitStores, 0, MaxFaults)
    /\ BcastInit /\ AiInit /\ StreamInit /\ AuxInit

SpecFaults == InitFaults /\ [][FrameStep]_vars

\* Proxy mode: every frame on its own thread, sharing proxy_state_global.
InitProxy ==
    /\ PipeInit("proxy", "apples", InitStores, 0, 0)
    /\ BcastInit /\ AiInit /\ StreamInit /\ AuxInit

SpecProxy == InitProxy /\ [][FrameStep]_vars

\* Local camera in front of apples the detector is more or less sure of;
\* the crops are buffered and saved.
InitConfidence ==
    /\ PipeInit("local", "uncertain", {StoreEmpty}, 0, 0)
    /\ BcastInit /\ AiInit /\ StreamInit
    /\ EdgeInit
    /\ DiscInit({100})
    /\ ImgInit(TRUE, {{}})
    /\ MatchInit({[c \in Customers |-> "skip"]})

SpecConfidence == InitConfidence /\ [][FrameStep]_vars

\* The camera proxy process: main and the runs it awaits.
InitCameraProxy ==
    /\ PipeInit("proxy", "apples", {StoreEmpty}, 0, 0)
    /\ BcastInit /\ AiInit /\ StreamInit
    /\ ProxyInit(TRUE) /\ CustInit /\ SaveInit
    /\ SimpleInit

NextCameraProxy ==
    \/ ConnectCamera
    \/ ConnectBackend
    \/ SendFrame
    \/ EndStream
    \/ RunReturns
    \/ Retry

SpecCameraProxy == InitCameraProxy /\ [][NextCameraProxy]_vars

\* Customer apps connecting and leaving while notifications are sent.
InitCustomers ==
    /\ PipeInit("local", "apples", {StoreEmpty}, 0, 0)
    /\ BcastInit /\ AiInit /\ StreamInit
    /\ ProxyInit(FALSE) /\ CustInit /\ SaveInit
    /\ SimpleInit

NextCustomers ==
    \/ \E s \in Sockets, c \in Customers : ConnectCustomer(s, c)
    \/ \E s \in Sockets : Welcome(s)
    \/ \E s \in Sockets : ReceiveRaises(s)
    \/ \E s \in Sockets : Unregister(s)
    \/ \E c \in Customers : notify_customer(c)

SpecCustomers == InitCustomers /\ [][NextCustomers]_vars

\* Local camera watching apples while the image route writes the crops out.
InitMaterialize ==
    /\ PipeInit("local", "apples", {StoreEmpty}, MaxHttp, 0)
    /\ BcastInit /\ AiInit /\ StreamInit
    /\ EdgeInit
    /\ DiscInit({100}) /\ ImgInit(TRUE, {{}})
    /\ MatchInit({[c \in Customers |-> "skip"]})

NextMaterialize ==
    \/ FrameStep
    \/ \E c \in Categories : BeginSave(c)
    \/ \E c \in Categories : SaveNext(c)
    \/ \E c \in Categories : ClearBuffer(c)

SpecMaterialize == InitMaterialize /\ [][NextMaterialize]_vars

\* Sessions one after the other, on the local camera or from the proxy.
InitSessions ==
    /\ \E m \in {"local", "proxy"} : PipeInit(m, "apples", {StoreEmpty}, 0, 0)
    /\ BcastInit /\ AiInit /\ StreamInit /\ AuxInit

NextSessions ==
    \/ FrameStep
    \/ NewSession

SpecSessions == InitSessions /\ [][NextSessions]_vars

\* Local camera watching apples ripen; the freshness API posts scores too.
InitFresh ==
    /\ PipeInit("local", "ripening", InitStores, MaxHttp, 0)
    /\ BcastInit /\ AiInit /\ StreamInit /\ AuxInit

NextFresh ==
    \/ FrameStep
    \/ \E id \in DOMAIN items, k \in FreshLevels : update_freshness(id, k)

SpecFresh == InitFresh /\ [][NextFresh]_vars

\* The server with the camera pipeline idle: the observers of the video
\* broadcast, the AI request threads, the stream handler.
InitServer ==
    /\ PipeInit("local", "mixed", {StoreEmpty}, 0, 0)
    /\ BcastInit /\ AiInit /\ StreamInit /\ AuxInit

NextBroadcast ==
    \/ \E o \in Observers : Connect(o)
    \/ \E o \in Observers : Disconnect(o)
    \/ BroadcastFrame

SpecBroadcast == InitServer /\ [][NextBroadcast]_vars

NextAI ==
    \/ \E r \in Requesters, algorithm \in BOOLEAN, rate_limited \in BOOLEAN :
            Request(r, algorithm, rate_limited)
    \/ \E r \in Requesters : Acquire(r)
    \/ \E r \in Requesters : Check(r)
    \/ \E r \in Requesters : StampAi(r)
    \/ \E r \in Requesters : CallAi(r)
    \/ \E r \in Requesters : CallSimple(r)
    \/ TickAi

SpecAI == InitServer /\ [][NextAI]_vars

NextStream ==
    \/ StartCmd
    \/ StopCmd
    \/ CloseConn
    \/ Release
    \/ \E p \in Producers : LoopTop(p)
    \/ \E p \in Producers : CheckCamera(p)
    \/ \E p \in Producers : BeginRead(p)
    \/ \E p \in Producers : EndRead(p)
    \/ \E p \in Producers : Work(p)

SpecStream == InitServer /\ [][NextStream]_vars

\* A status row rescored over and over with arbitrary scores.
InitDiscount ==
    /\ PipeInit("local", "mixed", {StoreEmpty}, 0, 0)
    /\ BcastInit /\ AiInit /\ StreamInit
    /\ EdgeInit
    /\ DiscInit(ScoreInputs) /\ ImgInit(FALSE, {{}})
    /\ MatchInit({[c \in Customers |-> "skip"]})

NextDiscount == \E s \in ScoreInputs : Rescore(s)

SpecDiscount == InitDiscount /\ [][NextDiscount]_vars

\* Local camera watching apples, with the image side followed: the crops
\* buffered, the thumbnails saved, the deletion threads, the image route.
InitImages ==
    /\ PipeInit("local", "apples", InitStores, MaxHttp, 0)
    /\ BcastInit /\ AiInit /\ StreamInit
    /\ EdgeInit
    /\ DiscInit({100}) /\ ImgInit(TRUE, {{}, OldFiles})
    /\ MatchInit({[c \in Customers |-> "skip"]})

NextImages ==
    \/ FrameStep
    \/ \E c \in Categories : RunDelete(c)
    \/ \E c \in Categories : get_detection_images(c)

SpecImages == InitImages /\ [][NextImages]_vars

\* The simple matcher run over customers of every kind.
InitMatcher ==
    /\ PipeInit("local", "mixed", {StoreEmpty}, 0, 0)
    /\ BcastInit /\ AiInit /\ StreamInit
    /\ EdgeInit
    /\ DiscInit({100}) /\ ImgInit(FALSE, {{}})
    /\ MatchInit([Customers -> Evaluations])

NextMatcher == _generate_recommendations_simple

SpecMatcher == InitMatcher /\ [][NextMatcher]_vars

\* Retention applied to directories of every content.
InitRetention ==
    /\ PipeInit("local", "mixed", {StoreEmpty}, 0, 0)
    /\ BcastInit /\ AiInit /\ StreamInit
    /\ EdgeInit
    /\ DiscInit({100}) /\ ImgInit(TRUE, SUBSET RetentionFiles)
    /\ MatchInit({[c \in Customers |-> "skip"]})

NextRetention == \E c \in Categories, n \in 1..MaxKeep : Retain(c, n)

SpecRetention == InitRetention /\ [][NextRetention]_vars


\* ================================================================ claims
\* C1 - Debounce: any two count-deltas (create or quantity update) emitted
\* for the same category are at least update_interval apart in time, in
\* local mode and in proxy mode.
C1_Debounce ==
    \A i, j \in DOMAIN emitLog :
        (i < j /\ emitLog[i][1] = emitLog[j][1])
            => emitLog[j][2] - emitLog[i][2] >= UpdateDelta

\* C2 - Cache/store consistency: in every state the cached quantity of every
\* category equals the quantity committed to the store for that category's
\* item; the cache is never ahead of the store.
C2_CacheEqualsStore ==
    \A c \in DOMAIN cache :
        /\ cache[c].id \in DOMAIN items
        /\ items[cache[c].id].qty = cache[c].qty

\* C3 - Atomic batch: a batch leaves the committed store either with all of
\* its writes or with none of them, also when a write of the batch fails.
C3_AtomicBatch ==
    [][\A t \in Threads :
         (pc[t] = "apply" /\ pc'[t] # "apply")
            => \/ <<items', fresh'>> = <<items, fresh>>
               \/ LET all == _apply_inventory_updates(
                                 upd[t], [items |-> items, fresh |-> fresh],
                                 cache, NoFault).cm
                  IN  items' = all.items /\ fresh' = all.fresh]_vars

\* C4 - Zero quantity keeps the record: when a batch that meets no store
\* error applies an update to quantity 0 to an existing record, the record is
\* in the store with quantity 0 right after that update, it is still in the
\* store when the batch ends, and it still reads 0 then unless a later update
\* of the same batch wrote the same row.
C4_ZeroKeepsRecord ==
    [][\A t \in Threads :
         (pc[t] = "apply" /\ pc'[t] = "bcast")
            => \A i \in DOMAIN upd[t] :
                 LET u == upd[t][i]
                     after == _apply_inventory_updates(
                                  SubSeq(upd[t], 1, i),
                                  [items |-> items, fresh |-> fresh],
                                  cache, NoFault).cm.items
                 IN  (u.type = "update" /\ u.new = 0 /\ u.id \in DOMAIN items)
                     => /\ u.id \in DOMAIN after
                        /\ after[u.id].qty = 0
                        /\ u.id \in DOMAIN items'
                        /\ (\A k \in DOMAIN upd[t] : k > i => upd[t][k].id # u.id)
                              => items'[u.id].qty = 0]_vars

\* the reconciler made the banana record (start-up stores hold no banana, no
\* API request was made) and has just applied the update that takes it to 0
C4_Witness ==
    /\ httpLeft = 0
    /\ pc[1] = "bcast"
    /\ \E i \in DOMAIN upd[1] :
          /\ upd[1][i].type = "update" /\ upd[1][i].cat = "banana"
          /\ upd[1][i].new = 0 /\ upd[1][i].old > 0
          /\ upd[1][i].id \in DOMAIN items
          /\ items[upd[1][i].id] = [cat |-> "banana", qty |-> 0]

\* C5 - Broadcast failure isolation: one broadcast gives the metadata message
\* and the frame bytes to every registered observer whose sends succeed, and
\* leaves the registry equal to the prior registry minus the observers whose
\* send failed.
C5_FailureIsolation ==
    [][frameNo' # frameNo
         => /\ registry' = registry \ failed'
            /\ \A o \in registry \ failed' : sent'[o] = 2
            /\ \A o \in failed' : sent'[o] < 2]_vars

\* a broadcast to five observers of which two failed, one at each message:
\* the other three are left and got both messages
C5_Witness ==
    /\ frameNo >= 1
    /\ Cardinality(failed) = 2
    /\ Cardinality(registry) = 3
    /\ registry \cap failed = {}
    /\ \A o \in registry : sent[o] = 2
    /\ \E o \in failed : sent[o] = 0
    /\ \E o \in failed : sent[o] = 1

\* C6 - AI rate limit: the admission times of any two rate-limited AI matcher
\* calls are at least AI_RECOMMENDATION_INTERVAL apart, and the requests of a
\* burst within one second lead to exactly one call.
C6_RateLimit ==
    /\ \A i, j \in DOMAIN aiCalls :
          i < j => aiCalls[j] - aiCalls[i] >= AI_RECOMMENDATION_INTERVAL
    /\ (/\ clock <= AI_RECOMMENDATION_INTERVAL + 1
        /\ checked >= 1
        /\ \A r \in Requesters : rpc[r] # "stamp")
       => Len(aiCalls) = 1

\* a burst of MaxRequests requests within the first second, one call
C6_Witness ==
    /\ checked = MaxRequests
    /\ clock <= AI_RECOMMENDATION_INTERVAL + 1
    /\ Len(aiCalls) = 1
    /\ \A r \in Requesters : rpc[r] = "idle"

\* C7 - Device release does not race with a frame read: no producer is inside
\* camera.read() on a capture that has been released.
C7_NoReleaseDuringRead ==
    \A p \in Producers : ppc[p] = "read" => opened[reading[p]] = "open"

\* C8 - Per-category serialization: for each category at most one frame is
\* between its debounce gate and the end of its reconciliation.
C8_Serialized ==
    LET InProgress(t, c) ==
            \/ pc[t] = "stamp" /\ Head(todo[t]) = c
            \/ pc[t] \in {"gate", "stamp", "apply"}
                 /\ \E i \in DOMAIN upd[t] : upd[t][i].cat = c
    IN  \A c \in Categories :
            Cardinality({t \in Threads : InProgress(t, c)}) <= 1

C10_TriggerCondition ==
    [][triggers' # triggers
         => \A r \in triggers' :
              /\ r.id \in DOMAIN fresh
              /\ fresh'[r.id].disc > fresh[r.id].disc
              /\ fresh'[r.id].disc >= TriggerDiscount]_vars

C10_Witness ==
    \E r \in triggers :
        /\ r.new >= TriggerDiscount
        /\ r.id \in DOMAIN fresh
        /\ fresh[r.id].disc = r.new

\* C11 - Freshness curve: the discount of a status row is 0 at freshness
\* 1.0 and 75 at freshness 0.0, lies in [0, 75] whatever score was assigned
\* (the score is clamped to [0, 1] first), and a rescoring to a freshness no
\* lower than before never raises the discount.
C11_FreshnessCurve ==
    /\ freshness_score = 100 => discount_percentage = 0
    /\ freshness_score = 0 => discount_percentage = MaxDiscount
    /\ discount_percentage \in 0..MaxDiscount
    /\ freshness_score <= 0 => discount_percentage = MaxDiscount
    /\ freshness_score >= 100 => discount_percentage = 0
    /\ lastScore <= freshness_score => discount_percentage <= lastDisc

\* a rescoring from above the scale down to freshness 0.0: 0 before, 75 after
C11_Witness ==
    /\ lastScore > 100 /\ lastDisc = 0
    /\ freshness_score = 0 /\ discount_percentage = MaxDiscount

\* C12 - Reconciler idempotence: when a batch is applied for an observation
\* identical to what is committed (every category shows the count of the
\* previous run, which is the quantity of its row, and the freshness average
\* its status row already holds), the batch writes no row of the store.
C12_Idempotent ==
    [][\A t \in Threads :
        LET SameAsCommitted(c) ==
                LET n == det[t][c].n
                IN  /\ n = Get(prev, c, 0)
                    /\ n > 0 =>
                        /\ c \in DOMAIN cache
                        /\ cache[c].id \in DOMAIN items
                        /\ items[cache[c].id].qty = n
                        /\ det[t][c].f # NoScore =>
                            /\ cache[c].id \in DOMAIN fresh
                            /\ fresh[cache[c].id].score = det[t][c].f
        IN  (/\ pc[t] = "apply"
             /\ pc'[t] = "bcast"
             /\ \A c \in Categories : SameAsCommitted(c))
            => writes' = {}]_vars

C14_LoopSurvives ==
    [][\A p \in Producers : ppc[p] = "work" => ppc'[p] # "done"]_vars

\* C15 - Store commit error: when a store write or commit fails while a
\* batch is applied, the committed store is what it was before the batch,
\* the inventory cache and the previous counts are what they were before
\* the tick, and the frame loop goes on to broadcast the frame.
C15_CommitErrorRollsBack ==
    [][\A t \in Threads :
        LET Updated(c) == {i \in DOMAIN upd[t] :
                              upd[t][i].type = "update" /\ upd[t][i].cat = c}
            CacheBeforeTick ==
                [c \in DOMAIN cache |->
                    IF Updated(c) # {}
                    THEN LET u == upd[t][CHOOSE i \in Updated(c) : TRUE]
                         IN  [id |-> u.id, qty |-> u.old]
                    ELSE cache[c]]
        IN  (pc[t] = "apply" /\ faultsLeft' < faultsLeft)
            => /\ items' = items /\ fresh' = fresh
               /\ cache' = CacheBeforeTick
               /\ prev' = prev
               /\ pc'[t] = "bcast"]_vars

\* C16 - Matcher failure isolation: after the simple matcher has run, every
\* customer whose preferences match the item has a committed recommendation
\* and was notified, whether or not the evaluation of another customer raised.
C16_MatcherIsolation ==
    matched => \A c \in Customers :
                  preferences[c] = "match" => c \in recommendations /\ c \in notified

\* C17 - One producer per stream: whatever start and stop commands the
\* connection has received, at most one producer thread is inside the frame
\* loop.
C17_OneProducer ==
    Cardinality({p \in Producers : ppc[p] \notin {"unborn", "done"}}) <= 1

\* C18 - Retention excludes durable files: a retention call with
\* max_images = N that changes a directory leaves at most N images in it,
\* removes no image newer than one it keeps, and removes no processed or
\* thumbnail image.
C18_RetentionKeepsDurable ==
    [][\A c \in Categories :
        files'[c] # files[c]
        => /\ files'[c] \subseteq files[c]
           /\ Cardinality(files'[c]) <= max_images'
           /\ \A d \in files[c] \ files'[c] :
                /\ \A k \in files'[c] : d.mtime <= k.mtime
                /\ ~Durable(d)]_vars

\* C19 - Buffered images are discarded at zero count: when the batch that
\* takes a category's count to zero has been applied, no crop of that
\* category is left in the memory buffer.
C19_BufferDiscardedAtZero ==
    [][\A t \in Threads :
        (pc[t] = "apply" /\ pc'[t] = "bcast")
        => \A i \in DOMAIN upd[t] :
              (upd[t][i].type = "update" /\ upd[t][i].new = 0)
              => category_images_memory_cache'[upd[t][i].cat] = 0]_vars

\* C20 - Change notifications: a batch that is applied without error sends,
\* for each of its updates and creates, exactly one quantity_changed event
\* with that update's old quantity, new quantity, delta and direction, and
\* for each create one inventory_added event as well.
C20_ChangeEvents ==
    [][\A t \in Threads :
        (pc[t] = "apply" /\ pc'[t] = "bcast")
        => \A i \in DOMAIN upd[t] :
            LET u  == upd[t][i]
                id == IF u.type = "update" THEN u.id ELSE cache'[u.cat].id
                Sent(type) == {j \in DOMAIN events' :
                                  events'[j].type = type /\ events'[j].id = id}
            IN  IsCountDelta(u)
                => /\ Cardinality(Sent("quantity_changed")) = 1
                   /\ \A j \in Sent("quantity_changed") :
                        /\ events'[j].old = u.old
                        /\ events'[j].new = u.new
                        /\ events'[j].delta = u.new - u.old
                        /\ events'[j].change_type =
                                IF u.new > u.old THEN "increase" ELSE "decrease"
                   /\ u.type = "create" => Cardinality(Sent("inventory_added")) = 1]_vars

\* C21: every observer is sent the frames in the order they were captured:
\* no frame is broadcast after a frame that was received later than it, in
\* proxy mode too, where each received frame is handled on its own thread.
C21_BroadcastOrder ==
    [][\A t \in Threads : Broadcast(t) => t \notin overtaken]_vars

\* C22: a request for the simple matcher is never skipped or delayed by the
\* AI rate limiter and never changes the shared last-AI-call timestamp: its
\* thread goes straight to the matcher, whatever rate_limited says, whoever
\* holds the lock and however recent the last AI call is, and the steps of
\* its thread leave _last_ai_call_time alone.
C22_SimpleNotLimited ==
    [][\A r \in Requesters :
         /\ ralg'[r] => rpc'[r] = "simple"
         /\ ralg[r] /\ rpc'[r] # rpc[r] =>
               /\ rpc'[r] = "idle"
               /\ lastAi' = lastAi /\ lock' = lock /\ checked' = checked]_vars

\* a simple-matcher request is running while another thread holds the lock
\* and the last AI call is less than the interval ago
C22_Witness ==
    \E r \in Requesters :
        /\ ralg[r] /\ rpc[r] = "simple"
        /\ lock \notin {0, r}
        /\ aiCalls # << >>
        /\ clock - lastAi < AI_RECOMMENDATION_INTERVAL

\* C23: the status tier is a function of the freshness score alone: at or
\* above 0.6 the row is fresh, from 0.2 up to but not including 0.6 it is in
\* the middle tier, below 0.2 it is on clearance; 0.6 itself is fresh and
\* 0.2 itself is in the middle tier, whatever the row held before.
C23_StatusTiers ==
    /\ status \in {"fresh", "ripe", "clearance"}
    /\ status = "fresh" <=> freshness_score >= 60
    /\ status = "ripe" <=> (20 <= freshness_score /\ freshness_score < 60)
    /\ status = "clearance" <=> freshness_score < 20
    /\ freshness_score = 60 => status = "fresh"
    /\ freshness_score = 20 => status = "ripe"

\* a row rescored from the lower boundary to the upper one
C23_Witness ==
    /\ lastScore = 20 /\ freshness_score = 60 /\ status = "fresh"

\* C24: whatever the interleaving of the pipeline's batches and the HTTP
\* create, update and delete requests on inventory rows, every committed
\* freshness row refers to an inventory row that exists (rows are keyed by
\* inventory_id, which the table keeps unique, so no item has two).
C24_FreshnessHasItem ==
    \A id \in DOMAIN fresh : id \in DOMAIN items

\* C25: the store is the authority for quantities: when a batch changes the
\* quantity of an existing row, the old quantity it uses and reports is the
\* quantity the store held for that row immediately before the write, also
\* when an HTTP request changed it since the pipeline last looked.
C25_OldQuantityFromStore ==
    [][\A t \in Threads :
        (pc[t] = "apply" /\ pc'[t] = "bcast")
        => \A j \in DOMAIN events' :
              (events'[j].type = "quantity_changed" /\ events'[j].id \in DOMAIN items)
              => events'[j].old = items[events'[j].id].qty]_vars

\* C26: on a stop command and when the connection ends, the streaming flag
\* is cleared first, the grace wait follows, and only then is the camera
\* released: the step that ends listening clears the flag and touches no
\* capture, and a capture is released only during the wait that follows,
\* with the flag off.
C26_StopOrdering ==
    [][/\ (hpc = "listen" /\ hpc' # "listen")
          => /\ hpc' \in {"stopSleep", "closeSleep"}
             /\ ~streaming'
             /\ camera' = camera /\ opened' = opened
       /\ (\E c \in Captures : opened[c] # "released" /\ opened'[c] = "released")
          => /\ hpc \in {"stopSleep", "closeSleep"}
             /\ ~streaming /\ ~streaming']_vars

\* a stream was stopped and its capture released, another was started and
\* its capture released when the connection ended
C26_Witness ==
    /\ hpc = "closed"
    /\ ~streaming
    /\ \A c \in Captures : opened[c] = "released"

C28_CountStatePerSession ==
    [][session' # session => prev' = EmptyDict /\ lastUpd' = EmptyDict]_vars

\* C29: a box whose confidence is below min_confidence is discarded before
\* anything else happens to it: the processed detections of a frame, which
\* are also the cached list the following frames are broadcast with, hold
\* the boxes at or above the threshold only; the counts, the freshness
\* averages and the crops buffered come from those boxes alone, and so do
\* the quantities the frame's updates carry and write to the store.
C29_ConfidenceFilter ==
    [][\A t \in Threads :
        LET Sure(boxes) == SelectSeq(boxes, LAMBDA x : x.confidence >= MinConfidence)
            Kept(boxes, c) == Cardinality({i \in DOMAIN boxes :
                                            /\ boxes[i].class = c
                                            /\ boxes[i].confidence >= MinConfidence})
        IN  /\ (pc[t] = "detect" /\ pc'[t] # "detect")
               => /\ det'[t] = Summary(Sure(result'[t]))
                  /\ cachedDet' = det'[t]
                  /\ \A c \in Categories :
                        /\ det'[t][c].n = Kept(result'[t], c)
                        /\ category_images_memory_cache'[c] =
                              category_images_memory_cache[c] + Kept(result'[t], c)
            /\ (pc[t] = "stamp" /\ pc'[t] # "stamp")
               => \A i \in DOMAIN upd'[t] :
                     IsCountDelta(upd'[t][i])
                     => upd'[t][i].new = Kept(result[t], upd'[t][i].cat)
            /\ (pc[t] = "apply" /\ pc'[t] = "bcast")
               => \A i \in DOMAIN upd[t] :
                     IsCountDelta(upd[t][i])
                     => items'[cache'[upd[t][i].cat].id].qty
                            = Kept(result[t], upd[t][i].cat)]_vars

\* a frame with a box below the threshold and a box at it has been
\* reconciled: one apple is in the store
C29_Witness ==
    /\ pc[1] = "bcast"
    /\ \E i, j \in DOMAIN result[1] :
          /\ result[1][i].confidence < MinConfidence
          /\ result[1][j].confidence = MinConfidence
    /\ det[1]["apple"].n = 1
    /\ \E id \in DOMAIN items : items[id] = [cat |-> "apple", qty |-> 1]
    /\ writes # {}

\* C30: in a detection tick the gate of a category is open exactly when no
\* last-update time is recorded for it or at least update_interval has
\* passed since that time.  When it is open, the last-update time becomes
\* the time of the tick, whether or not the category gets a delta.  When it
\* is closed, nothing about the category changes in that tick: no delta,
\* no last-update time, no previous count, no cache entry.
C30_GateRule ==
    [][\A t \in Threads :
        LET Same(f, g, c) == /\ (c \in DOMAIN f <=> c \in DOMAIN g)
                             /\ (c \in DOMAIN f => f[c] = g[c])
        IN  /\ (pc[t] = "gate" /\ pc'[t] # "gate")
               => LET c == Head(todo[t])
                      open == \/ c \notin DOMAIN lastUpd
                              \/ ctime[t] - lastUpd[c] >= UpdateDelta
                  IN  /\ pc'[t] = "stamp" <=> open
                      /\ ~open => /\ lastUpd' = lastUpd /\ prev' = prev
                                   /\ cache' = cache /\ upd' = upd
                                   /\ emitLog' = emitLog
                                   /\ c \notin {todo'[t][i] : i \in DOMAIN todo'[t]}
            /\ (pc[t] = "stamp" /\ pc'[t] # "stamp")
               => /\ Head(todo[t]) \in DOMAIN lastUpd'
                  /\ lastUpd'[Head(todo[t])] = ctime[t]
                  /\ \A c \in Categories \ {Head(todo[t])} :
                        Same(lastUpd', lastUpd, c) /\ Same(cache', cache, c)
            /\ (pc[t] = "apply" /\ pc'[t] # "apply")
               => \A c \in Categories :
                     (c \in DOMAIN lastUpd /\ lastUpd[c] # ctime[t])
                     => /\ \A i \in DOMAIN upd[t] : upd[t][i].cat # c
                        /\ \A i \in DOMAIN emitLog : emitLog[i] # <<c, ctime[t]>>
                        /\ Same(prev', prev, c)
                        /\ Same(cache', cache, c)
                        /\ Same(lastUpd', lastUpd, c)]_vars

\* a tick has ended in which one category was let through and stamped and
\* another, seen with a count other than its previous one, was held back
C30_Witness ==
    /\ pc[1] = "bcast"
    /\ \E c, d \in DOMAIN lastUpd :
          /\ lastUpd[c] = ctime[1]
          /\ lastUpd[d] # ctime[1]
          /\ ctime[1] - lastUpd[d] < UpdateDelta
          /\ det[1] = cachedDet /\ lastDet = ctime[1]
          /\ det[1][d].n # Get(prev, d, 0)

\* C31: a category the tracker holds with a positive count and that the
\* detection of a tick does not show is part of that tick's comparison (the
\* union of the new and the previously tracked categories); at the first
\* such tick whose gate is open for it, an update to quantity 0 is emitted
\* for it, and when the batch is applied its store quantity is 0 and its
\* previous count is 0.
C31_DisappearanceCommitted ==
    [][\A t \in Threads :
        LET Gone(c) == Get(prev, c, 0) > 0 /\ det'[t][c].n = 0
        IN  /\ (pc[t] = "detect" /\ pc'[t] # "detect")
               => \A c \in Categories :
                     Gone(c) => \E i \in DOMAIN todo'[t] : todo'[t][i] = c
            /\ (pc[t] = "stamp" /\ pc'[t] # "stamp")
               => (Gone(Head(todo[t]))
                   => \E i \in DOMAIN upd'[t] :
                         /\ upd'[t][i].cat = Head(todo[t])
                         /\ upd'[t][i].type = "update"
                         /\ upd'[t][i].new = 0
                         /\ emitLog' = Append(emitLog, <<Head(todo[t]), ctime[t]>>))
            /\ (pc[t] = "apply" /\ pc'[t] # "apply")
               => \A c \in Categories :
                     (Gone(c) /\ lastUpd[c] = ctime[t])
                     => /\ c \in DOMAIN cache' /\ cache'[c].id \in DOMAIN items'
                        /\ items'[cache'[c].id] = [cat |-> c, qty |-> 0]
                        /\ prev'[c] = 0]_vars

\* the banana the pipeline committed has gone: the tick that found its gate
\* open wrote quantity 0, one second at least after the create
C31_Witness ==
    /\ pc[1] = "bcast"
    /\ "banana" \in DOMAIN prev /\ prev["banana"] = 0
    /\ lastUpd["banana"] = ctime[1]
    /\ \E id \in writes : items[id] = [cat |-> "banana", qty |-> 0]
    /\ \E i, j \in DOMAIN emitLog :
          i < j /\ emitLog[i][1] = "banana" /\ emitLog[j] = <<"banana", ctime[1]>>

\* C32: every frame that was read or decoded is broadcast, once, whether or
\* not detection ran on it: the processing of a frame ends with its
\* broadcast and in no other way, and a frame on which detection did not run
\* goes to its broadcast with the cached detections of the last tick.
C32_BroadcastEveryFrame ==
    [][\A t \in Threads :
        /\ (pc[t] # "idle" /\ pc'[t] \in {"idle", "ended"}) => pc[t] = "bcast"
        /\ (pc[t] = "cached" /\ pc'[t] # "cached")
              => pc'[t] = "bcast" /\ det'[t] = cachedDet]_vars

\* C33: when a run of the camera proxy fails (the camera cannot be opened,
\* the backend connection fails or is lost), main retries the run after
\* retry_delay, as long as fewer than max_retries runs have been made; it
\* makes at most max_retries runs and stops after the first run that ends
\* without failure.
C33_ProxyRetry ==
    [][/\ (mpc = "finally" /\ mpc' # "finally")
          => /\ (runFailed' /\ attempt < max_retries - 1) => mpc' = "sleep"
             /\ ~runFailed' => mpc' = "done"
       /\ attempt' \in 0..(max_retries - 1)]_vars

\* C34: a start command is answered with 'Camera already started' only while
\* a producer thread of the connection is running; after a failed open, or
\* after the producer loop has ended by itself, a start is not rejected.
C34_RejectedOnlyWhileStreaming ==
    [][(reply' = "already_started" /\ reply # "already_started")
          => \E p \in Producers : ppc[p] \notin {"unborn", "done"}]_vars

\* C35: the pipeline never creates a second inventory record for a category
\* while a record it created or preloaded for that category exists: with no
\* API request in the run, no two rows of the store have the same category.
C35_OneRecordPerCategory ==
    \A i, j \in DOMAIN items : items[i].cat = items[j].cat => i = j

\* C36: while a customer's handler is running and no send on its socket has
\* failed, the customer's newest connection stays registered in
\* customer_connections; the exit of an older handler of the same customer
\* does not remove it.
C36_RegistrationSurvives ==
    \A s \in Sockets :
        (/\ wpc[s] \in {"welcome", "loop"}
         /\ ~sendFailed[s]
         /\ \A o \in Sockets : o > s => wsCustomer[o] # wsCustomer[s])
        => /\ wsCustomer[s] \in DOMAIN customer_connections
           /\ customer_connections[wsCustomer[s]] = s

\* C37: every crop appended to a category's buffer is either still in the
\* buffer or has been written out by a materialization, also when the
\* detection thread appends while _save_memory_images_to_disk runs: the
\* list a materialization replaces holds no crop its loop has not saved.
C37_NoBufferedImageLost ==
    [][\A c \in Categories :
          category_images_memory_cache'[c] < category_images_memory_cache[c]
          => savedIdx[c] >= category_images_memory_cache[c]]_vars

\* C38: in local-camera mode, after every completed detection tick, for
\* every category for which an update was emitted in the session, the
\* tracker's previous count equals the quantity of the category's entry in
\* the inventory cache.
C38_TrackerMatchesCache ==
    (mode = "local" /\ pc[1] = "idle")
    => \A c \in (DOMAIN prev) \cup {emitLog[i][1] : i \in DOMAIN emitLog} :
          /\ c \in DOMAIN prev
          /\ c \in DOMAIN cache
          /\ cache[c].qty = prev[c]

\* C38 witness: a tick is complete after two count updates of apples were
\* emitted, the count having gone back to 0: tracker and cache both hold 0.
C38_Witness ==
    /\ mode = "local" /\ pc[1] = "idle"
    /\ "apple" \in DOMAIN prev /\ prev["apple"] = 0
    /\ "apple" \in DOMAIN cache /\ cache["apple"].qty = 0
    /\ \E i, j \in DOMAIN emitLog :
          i < j /\ emitLog[i][1] = "apple" /\ emitLog[j][1] = "apple"

====
